---- MODULE Spec2Model ----
(***************************************************************************)
(* vcard_normalizer: similarity scoring, duplicate clustering, automatic   *)
(* and interactive merge, and the run paths (CLI pipeline, menu launcher,  *)
(* web pipeline) that cluster, merge and export an address book.           *)
(*                                                                         *)
(* Contacts are Python objects mutated in place; `cards` is the heap       *)
(* (index -> Card record) and clusters / merged lists hold indices.        *)
(* Python's None and "" are both falsy and are both written "".            *)
(* Scores are floats in the code; here they are integers in hundredths     *)
(* (similarity 70.0 is 7000).                                              *)
(***************************************************************************)
EXTENDS Integers, Sequences, FiniteSets, TLC

VARIABLES
  mode,       \* the run path: "cli_auto", "cli_interactive", "launcher", "web", ...
  dry_run,    \* the CLI's --dry-run flag
  pc,         \* the position of the run
  cards,      \* the heap: every Card object of the run, by index
  cards0,     \* the heap as it was when the run started
  clusters,   \* find_duplicate_clusters' result: sequences of heap indices
  compared,   \* the pairs <<seed, j>> the clustering passed to similarity
  merged,     \* the `merged` list: merged[k] survives clusters[k]
  decisions,  \* how clusters[k] was resolved
  idx,        \* the loop position (cluster or card being handled)
  queue,      \* the `uncategorised` list of prompt_review_uncategorised
  edits,      \* category answers given in the reviews so far
  answer,     \* the last text typed at the duplicate-review prompt
  outcome,    \* how the run ended: the contact list it ended with, the file written
  score,      \* the result of a single similarity call
  srv,        \* the web server: _state and its background pipeline threads
  keep_unknown, \* the CLI's --keep-unknown flag, given to DefaultStripper
  text,       \* the lines of the input file as they are handed to the parser
  disk,       \* files: the input file's lines and the checkpoint in cards-wip/
  flagged_delete \* review_cards: the positions flagged for deletion

vars == <<mode, dry_run, pc, cards, cards0, clusters, compared, merged,
          decisions, idx, queue, edits, answer, outcome, score, srv,
          keep_unknown, text, disk, flagged_delete>>

----------------------------------------------------------------------------
(* Generic helpers *)

Range(s) == {s[i] : i \in 1..Len(s)}

Min(a, b) == IF a <= b THEN a ELSE b

\* Python's sorted(S) for S inside a universe listed in str order.
Sorted(S, order) == SelectSeq(order, LAMBDA x : x \in S)

----------------------------------------------------------------------------
(* Value universes.  Every *Order lists its values in Python str order.    *)

\* Phone strings are sequences of characters.
Digits == {"0", "1", "2", "3", "4", "5", "6", "7", "8", "9"}

P_local == <<"0","7","9","8","0","2","2","0","2","2","0">>
P_intl  == <<"+","4","4","7","9","8","0","2","2","0","2","2","0">>
P_fmt   == <<"+","4","4"," ","7","9","8","0"," ","2","2","0"," ","2","2","0">>
P_other == <<"0","7","9","8","0","2","2","0","2","2","1">>
P_short == <<"1","2","3","4","5">>
P_ext   == <<"e","x","t">>
P_other_fmt == <<"+","4","4"," ","7","9","8","0"," ","2","2","0"," ","2","2","1">>

PhoneOrder == <<P_fmt, P_other_fmt, P_intl, P_local, P_other, P_short, P_ext>>
EmailOrder == <<"a@x.com", "b@x.com">>
CategoryOrder == <<"Family", "Work", "__DELETE__">>
SourceOrder == <<"icloud", "proton">>

Card(uid, fn, emails, tels, org, title, categories, source) ==
  [uid |-> uid, fn |-> fn, family |-> "", given |-> "", emails |-> emails,
   tels |-> tels, org |-> org,
   title |-> title, bday |-> "", anniversary |-> "", note |-> "", kind |-> "",
   categories |-> categories,
   related |-> <<>>, raw |-> <<>>, waived |-> {},
   changes |-> <<>>, source_files |-> <<source>>, typed |-> FALSE]

\* model.py Card.log_change: self._changes.append(msg)
ReplaceLogMutant(c, entry) == [c EXCEPT !.changes = <<entry>>]

log_change(c, entry) == [c EXCEPT !.changes = Append(@, entry)]

----------------------------------------------------------------------------
(* _similarity.py *)

FirstDigitsMutant(t) ==
  LET digits == SelectSeq(t, LAMBDA ch : ch \in Digits)
  IN IF Len(digits) >= 9 THEN SubSeq(digits, 1, 9) ELSE digits

tel_key(t) ==
  LET digits == SelectSeq(t, LAMBDA ch : ch \in Digits)
  IN IF Len(digits) >= 9
       THEN SubSeq(digits, Len(digits) - 8, Len(digits))
       ELSE digits

\* str.lower() on the organisation universe.
lower(s) ==
  CASE s = "Acme" -> "acme"
    [] s = "ACME" -> "acme"
    [] s = "Beta" -> "beta"
    [] s = "Acme Ltd" -> "acme ltd"
    [] OTHER -> s

\* rapidfuzz fuzz.token_sort_ratio on the display-name universe, times 10
\* (62.5 is 625): 100 * 2*LCS / (len a + len b) of the token-sorted names.
token_sort_ratio(x, y) ==
  IF x = y THEN 1000
  ELSE IF {x, y} = {"Alice Smith", "Smith Alice"} THEN 1000
  ELSE IF {x, y} \in {{"Alice", "Alice Smith"}, {"Alice", "Smith Alice"}} THEN 625
  ELSE 0

UncappedMutant(a, b) ==
  IF a.uid # "" /\ b.uid # "" /\ a.uid = b.uid THEN 10000
  ELSE
    (IF Range(a.emails) \cap Range(b.emails) # {} THEN 6000 ELSE 0)
    + (IF {tel_key(t) : t \in Range(a.tels)} \cap {tel_key(t) : t \in Range(b.tels)} # {}
         THEN 4000 ELSE 0)
    + (IF a.fn # "" /\ b.fn # "" THEN 4 * token_sort_ratio(a.fn, b.fn) ELSE 0)
    + (IF a.org # "" /\ b.org # "" /\ lower(a.org) = lower(b.org) THEN 1000 ELSE 0)

NoUidShortCircuitMutant(a, b) ==
  Min(UncappedMutant([a EXCEPT !.uid = ""], b), 10000)

similarity(a, b) ==
  IF a.uid # "" /\ b.uid # "" /\ a.uid = b.uid THEN 10000
  ELSE
    LET a_tel_keys == {tel_key(t) : t \in Range(a.tels)}
        b_tel_keys == {tel_key(t) : t \in Range(b.tels)}
        s1 == IF a.emails # <<>> /\ b.emails # <<>>
                 /\ Range(a.emails) \cap Range(b.emails) # {}
              THEN 6000 ELSE 0
        s2 == s1 + (IF a_tel_keys # {} /\ b_tel_keys # {}
                       /\ a_tel_keys \cap b_tel_keys # {}
                    THEN 4000 ELSE 0)
        s3 == s2 + (IF a.fn # "" /\ b.fn # ""
                    THEN 4 * token_sort_ratio(a.fn, b.fn) ELSE 0)
        s4 == s3 + (IF a.org # "" /\ b.org # "" /\ lower(a.org) = lower(b.org)
                    THEN 1000 ELSE 0)
    IN Min(s4, 10000)

\* checkpoint.py: cards-wip/ holds neither checkpoint.vcf nor checkpoint.json.
NoCheckpoint == [exists |-> FALSE, vcf |-> <<>>, meta |-> <<>>]

\* No input file has been read, no checkpoint and no export file written.
NoDisk == [input |-> <<>>, checkpoint |-> NoCheckpoint,
           out |-> [exists |-> FALSE, written |-> <<>>]]

\* server.py _state before any request, with no pipeline thread.
NoServer == [status |-> "idle", progress |-> 0, cards |-> <<>>, input |-> <<>>,
             runs |-> <<>>]

\* A run that has not ended yet.
NoOutcome == [kind |-> "none", cards |-> <<>>, written |-> <<>>, skipped |-> 0]

----------------------------------------------------------------------------
(* dedupe.py: find_duplicate_clusters.  `h` is the heap of cards; the      *)
(* scan state st carries visited, the clusters built so far and            *)
(* `compared`, the pairs <<seed, j>> the scan passed to similarity.        *)

DupThreshold == 70

\* The inner loop `for j in range(i + 1, len(cards))` from position j on.
RECURSIVE ScanLater(_, _, _, _)
ScanLater(h, i, j, st) ==
  IF j > Len(h) THEN st
  ELSE IF j \in st.visited THEN ScanLater(h, i, j + 1, st)
  ELSE IF similarity(h[i], h[j]) >= DupThreshold * 100
    THEN ScanLater(h, i, j + 1,
           [visited  |-> st.visited \cup {j},
            clusters |-> [st.clusters EXCEPT ![Len(st.clusters)] = Append(@, j)],
            compared |-> st.compared \cup {<<i, j>>}])
    ELSE ScanLater(h, i, j + 1, [st EXCEPT !.compared = @ \cup {<<i, j>>}])

\* The outer loop `for i, c in enumerate(cards)` from position i on.
RECURSIVE ScanSeeds(_, _, _)
ScanSeeds(h, i, st) ==
  IF i > Len(h) THEN st
  ELSE IF i \in st.visited THEN ScanSeeds(h, i + 1, st)
  ELSE ScanSeeds(h, i + 1,
         ScanLater(h, i, i + 1,
           [visited  |-> st.visited \cup {i},
            clusters |-> Append(st.clusters, <<i>>),
            compared |-> st.compared]))

\* A scan that compares j with the member added last instead of the seed.
RECURSIVE ChainScanLater(_, _, _, _)
ChainScanLater(h, i, j, st) ==
  LET cl == st.clusters[Len(st.clusters)]
      last == cl[Len(cl)]
  IN IF j > Len(h) THEN st
     ELSE IF j \in st.visited THEN ChainScanLater(h, i, j + 1, st)
     ELSE IF similarity(h[last], h[j]) >= DupThreshold * 100
       THEN ChainScanLater(h, i, j + 1,
              [visited  |-> st.visited \cup {j},
               clusters |-> [st.clusters EXCEPT ![Len(st.clusters)] = Append(@, j)],
               compared |-> st.compared \cup {<<i, j>>}])
       ELSE ChainScanLater(h, i, j + 1, [st EXCEPT !.compared = @ \cup {<<i, j>>}])

RECURSIVE ChainScanSeeds(_, _, _)
ChainScanSeeds(h, i, st) ==
  IF i > Len(h) THEN st
  ELSE IF i \in st.visited THEN ChainScanSeeds(h, i + 1, st)
  ELSE ChainScanSeeds(h, i + 1,
         ChainScanLater(h, i, i + 1,
           [visited  |-> st.visited \cup {i},
            clusters |-> Append(st.clusters, <<i>>),
            compared |-> st.compared]))

ChainClustersMutant(h) ==
  ChainScanSeeds(h, 1, [visited |-> {}, clusters |-> <<>>, compared |-> {}])

\* A scan whose inner loop does not skip the contacts already visited.
RECURSIVE RevisitScanSeeds(_, _, _)
RevisitScanSeeds(h, i, st) ==
  IF i > Len(h) THEN st
  ELSE IF i \in st.visited THEN RevisitScanSeeds(h, i + 1, st)
  ELSE LET later == SelectSeq([k \in 1..Len(h) |-> k],
                     LAMBDA j : j > i /\ similarity(h[i], h[j]) >= DupThreshold * 100)
       IN RevisitScanSeeds(h, i + 1,
            [visited  |-> st.visited \cup {i} \cup Range(later),
             clusters |-> Append(st.clusters, <<i>> \o later),
             compared |-> st.compared \cup {<<i, j>> : j \in (i + 1)..Len(h)}])

RevisitClustersMutant(h) ==
  RevisitScanSeeds(h, 1, [visited |-> {}, clusters |-> <<>>, compared |-> {}])

find_duplicate_clusters(h) ==
  ScanSeeds(h, 1, [visited |-> {}, clusters |-> <<>>, compared |-> {}])

----------------------------------------------------------------------------
(* dedupe.py: _merge_categories and merge_cluster_auto.  A cluster is a    *)
(* sequence of heap indices; the merge mutates the chosen card in place,   *)
(* so it yields the index of the result and its new record.                *)

\* An audit entry: the message kind, its count and its listed items.
Entry(tag, n, items) == [tag |-> tag, n |-> n, items |-> items]

\* The key of max(): (len(emails) + len(tels), len(fn or "")).
RichKey(c) == <<Len(c.emails) + Len(c.tels), Len(c.fn)>>

KeyGreater(x, y) == x[1] > y[1] \/ (x[1] = y[1] /\ x[2] > y[2])

\* Python's max(cluster, key=...): the first member no later one beats.
RECURSIVE MaxFrom(_, _, _, _)
MaxFrom(h, cluster, i, best) ==
  IF i > Len(cluster) THEN best
  ELSE IF KeyGreater(RichKey(h[cluster[i]]), RichKey(h[best]))
    THEN MaxFrom(h, cluster, i + 1, cluster[i])
    ELSE MaxFrom(h, cluster, i + 1, best)

FirstMemberMutant(h, cluster) == cluster[1]

richest(h, cluster) == MaxFrom(h, cluster, 2, cluster[1])

\* The first non-empty value of a scalar field in cluster order, else "".
RECURSIVE FirstNonEmpty(_, _, _, _)
FirstNonEmpty(h, cluster, i, field) ==
  IF i > Len(cluster) THEN ""
  ELSE IF h[cluster[i]][field] # "" THEN h[cluster[i]][field]
  ELSE FirstNonEmpty(h, cluster, i + 1, field)

AllOf(h, cluster, field) ==
  UNION {Range(h[cluster[i]][field]) : i \in 1..Len(cluster)}

\* _merge_categories: (merged categories, had_conflict).
merge_categories(h, cluster) ==
  LET non_empty == SelectSeq(cluster, LAMBDA m : h[m].categories # <<>>)
      sets == {Range(h[non_empty[i]].categories) : i \in 1..Len(non_empty)}
  IN IF Len(non_empty) = 0 THEN [cats |-> <<>>, conflict |-> FALSE]
     ELSE IF Len(non_empty) = 1
       THEN [cats |-> Sorted(Range(h[non_empty[1]].categories), CategoryOrder),
             conflict |-> FALSE]
     ELSE [cats |-> Sorted(UNION sets, CategoryOrder),
           conflict |-> Cardinality(sets) > 1]

AllNamesMutant(h, cluster, best_fn) ==
  SelectSeq([i \in 1..Len(cluster) |-> h[cluster[i]].fn], LAMBDA f : f # "")

\* merged_names: the members' names that are set and are not the base's.
merged_names(h, cluster, best_fn) ==
  SelectSeq([i \in 1..Len(cluster) |-> h[cluster[i]].fn],
            LAMBDA f : f # "" /\ f # best_fn)

BaseOnlyMutant(h, cluster) ==
  LET b == richest(h, cluster)
  IN [h[b] EXCEPT !.changes = Append(@, Entry("Auto-merged", Len(cluster), <<>>))]

\* The record merge_cluster_auto leaves on the card richest(h, cluster).
merge_cluster_auto(h, cluster) ==
  LET b == richest(h, cluster)
      c1 == [h[b] EXCEPT
               !.emails = Sorted(AllOf(h, cluster, "emails"), EmailOrder),
               !.tels   = Sorted(AllOf(h, cluster, "tels"), PhoneOrder)]
      c2 == IF c1.org = "" THEN [c1 EXCEPT !.org = FirstNonEmpty(h, cluster, 1, "org")]
            ELSE c1
      c3 == IF c2.title = ""
              THEN [c2 EXCEPT !.title = FirstNonEmpty(h, cluster, 1, "title")]
            ELSE c2
      mc == merge_categories(h, cluster)
      before == Range(c3.categories)
      after == Sorted(before \cup Range(mc.cats), CategoryOrder)
      gained == Range(after) \ before
      c4 == IF mc.cats = <<>> THEN c3
            ELSE IF gained = {} THEN [c3 EXCEPT !.categories = after]
            ELSE IF mc.conflict
              THEN [c3 EXCEPT !.categories = after,
                              !.changes = Append(@,
                                Entry("Categories merged (conflict resolved by union)",
                                      0, after))]
            ELSE [c3 EXCEPT !.categories = after,
                            !.changes = Append(@,
                              Entry("Categories carried over from source", 0,
                                    Sorted(gained, CategoryOrder)))]
      names == merged_names(h, cluster, c4.fn)
  IN IF Len(cluster) > 1
       THEN [c4 EXCEPT !.changes = Append(@, Entry("Auto-merged", Len(cluster), names))]
       ELSE c4

----------------------------------------------------------------------------
(* interactive.py: _is_effectively_identical, _union, _adopt and the       *)
(* decisions of pick_merge.                                                *)

AUTO_UNION_THRESHOLD == 95

DELETE_SENTINEL == "__DELETE__"

FirstPairMutant(h, cluster) ==
  \/ Len(cluster) < 2
  \/ similarity(h[cluster[1]], h[cluster[2]]) >= AUTO_UNION_THRESHOLD * 100

is_effectively_identical(h, cluster) ==
  \/ Len(cluster) < 2
  \/ \A i \in 1..Len(cluster) : \A j \in (i + 1)..Len(cluster) :
       similarity(h[cluster[i]], h[cluster[j]]) >= AUTO_UNION_THRESHOLD * 100

AbsorbListsOnlyMutant(base, c) ==
  [base EXCEPT
     !.emails     = Sorted(Range(base.emails) \cup Range(c.emails), EmailOrder),
     !.tels       = Sorted(Range(base.tels) \cup Range(c.tels), PhoneOrder),
     !.categories = Sorted(Range(base.categories) \cup Range(c.categories),
                           CategoryOrder)]

\* One pass of the loop body shared by _union and _adopt: base absorbs c.
Absorb(base, c) ==
  [base EXCEPT
     !.emails     = Sorted(Range(base.emails) \cup Range(c.emails), EmailOrder),
     !.tels       = Sorted(Range(base.tels) \cup Range(c.tels), PhoneOrder),
     !.categories = Sorted(Range(base.categories) \cup Range(c.categories),
                           CategoryOrder),
     !.fn    = IF base.fn = ""    /\ c.fn # ""    THEN c.fn    ELSE base.fn,
     !.org   = IF base.org = ""   /\ c.org # ""   THEN c.org   ELSE base.org,
     !.title = IF base.title = "" /\ c.title # "" THEN c.title ELSE base.title,
     !.bday  = IF base.bday = ""  /\ c.bday # ""  THEN c.bday  ELSE base.bday,
     !.uid   = IF base.uid = ""   /\ c.uid # ""   THEN c.uid   ELSE base.uid,
     !.kind  = IF base.kind = ""  /\ c.kind # ""  THEN c.kind  ELSE base.kind]

RECURSIVE AbsorbAll(_, _, _, _)
AbsorbAll(base, h, members, i) ==
  IF i > Len(members) THEN base
  ELSE AbsorbAll(Absorb(base, h[members[i]]), h, members, i + 1)

\* _union: the record left on richest(h, cluster).
union(h, cluster) == AbsorbAll(h[richest(h, cluster)], h, cluster, 1)

\* _adopt(cluster[n], *others): the record left on cluster[n].
adopt(h, cluster, n) ==
  AbsorbAll(h[cluster[n]], h,
            SelectSeq(cluster, LAMBDA m : m # cluster[n]), 1)

\* The record the 'd' decision leaves on richest(h, cluster).
mark_deleted(h, cluster) ==
  [h[richest(h, cluster)] EXCEPT
     !.categories = <<DELETE_SENTINEL>>,
     !.changes = Append(@, Entry("Marked for deletion during duplicate review",
                                 0, <<>>))]

\* What the user may type at the duplicate-review prompt (an empty line is
\* the default "u").
Answers == {"1", "2", "3", "u", "d", "q", "x", "9"}

\* The choices= list Prompt.ask enforces for a cluster of two; the prompt
\* for a larger cluster passes none and accepts any text.
PairChoices == {"1", "2", "u", "d", "q"}

Accepted(cluster, ans) == Len(cluster) # 2 \/ ans \in PairChoices

\* int(choice) - 1, 0 when int() raises, clamped into the cluster; 1-based.
base_idx(cluster, ans) ==
  LET n == CASE ans = "1" -> 1 [] ans = "2" -> 2 [] ans = "3" -> 3
             [] ans = "9" -> 9 [] OTHER -> 1
  IN IF n > Len(cluster) THEN Len(cluster) ELSE n

----------------------------------------------------------------------------
(* exporter.py: _serialise_one and export_vcards.                          *)

\* Python's order on the display, family and given names in use.
NameOrder == <<"", "Alice", "Alice Smith", "Bob", "Jones", "Smith", "Smith Alice">>

\* Python's order on the structured names in use.
StructuredOrder == <<"", ";Alice;;;", "Jones;Bob;;;", "Smith;Alice;;;", "Smith;Bob;;;">>

Rank(x, order) == CHOOSE i \in 1..Len(order) : order[i] = x

\* NameComponents.to_vcard_str
to_vcard_str(c) == c.family \o ";" \o c.given \o ";;;"

\* Card.n, with None as "".
card_n(c) == IF to_vcard_str(c) = ";;;;" THEN "" ELSE to_vcard_str(c)

\* key=lambda c: (c.fn or "", c.n or "")
export_key(c) == <<Rank(c.fn, NameOrder), Rank(card_n(c), StructuredOrder)>>

\* key=lambda c: (c.name.family or c.fn or "", c.name.given or "")
individual_key(c) ==
  <<Rank(IF c.family # "" THEN c.family ELSE c.fn, NameOrder),
    Rank(c.given, NameOrder)>>

\* Python's <= on two-element tuples.
TupleLeq(x, y) == x[1] < y[1] \/ (x[1] = y[1] /\ x[2] <= y[2])

\* sorted(cards, key=...): stable, so equal keys keep their list order.
RECURSIVE InsertByName(_, _, _)
InsertByName(h, sorted, m) ==
  IF sorted = <<>> THEN <<m>>
  ELSE IF TupleLeq(export_key(h[sorted[Len(sorted)]]), export_key(h[m]))
    THEN Append(sorted, m)
    ELSE Append(InsertByName(h, SubSeq(sorted, 1, Len(sorted) - 1), m),
                sorted[Len(sorted)])

NoSortMutant(h, list, i) == SubSeq(list, 1, i)

RECURSIVE SortByName(_, _, _)
SortByName(h, list, i) ==
  IF i = 0 THEN <<>>
  ELSE InsertByName(h, SortByName(h, list, i - 1), list[i])

RECURSIVE InsertByFamily(_, _, _)
InsertByFamily(h, sorted, m) ==
  IF sorted = <<>> THEN <<m>>
  ELSE IF TupleLeq(individual_key(h[sorted[Len(sorted)]]), individual_key(h[m]))
    THEN Append(sorted, m)
    ELSE Append(InsertByFamily(h, SubSeq(sorted, 1, Len(sorted) - 1), m),
                sorted[Len(sorted)])

RECURSIVE SortByFamily(_, _, _)
SortByFamily(h, list, i) ==
  IF i = 0 THEN <<>>
  ELSE InsertByFamily(h, SortByFamily(h, list, i - 1), list[i])

AlwaysSerialisesMutant(c) == TRUE

\* Whether _serialise_one returns text.  It reads c.typed_emails and
\* c.typed_tels, which model.Card does not define: on a card that was not
\* given both attributes the AttributeError is caught and "" is returned.
serialise_one(c) == c.typed

AbortOnFailureMutant(h, list) ==
  LET cards_sorted == SortByName(h, list, Len(list))
      bad == {i \in 1..Len(cards_sorted) : ~serialise_one(h[cards_sorted[i]])}
      stop == IF bad = {} THEN Len(cards_sorted) + 1
              ELSE CHOOSE i \in bad : \A k \in bad : i <= k
  IN [kind |-> "file", cards |-> list,
      written |-> SubSeq(cards_sorted, 1, stop - 1),
      skipped |-> IF bad = {} THEN 0 ELSE 1]

\* export_vcards: the list it was given, the file written (in file order)
\* and the number of cards skipped; it returns len(cards) - skipped.
export_vcards(h, list) ==
  LET cards_sorted == SortByName(h, list, Len(list))
      written == SelectSeq(cards_sorted, LAMBDA m : serialise_one(h[m]))
      failed == SelectSeq(cards_sorted, LAMBDA m : ~serialise_one(h[m]))
  IN [kind |-> "file", cards |-> list, written |-> written,
      skipped |-> Len(failed)]

\* export_vcards_individual: one file per card that serialises (a name
\* already taken gets a counter suffix), returning (written, skipped).
export_vcards_individual(h, list) ==
  LET cards_sorted == SortByFamily(h, list, Len(list))
      written == SelectSeq(cards_sorted, LAMBDA m : serialise_one(h[m]))
      failed == SelectSeq(cards_sorted, LAMBDA m : ~serialise_one(h[m]))
  IN [kind |-> "folder", cards |-> list, written |-> written,
      skipped |-> Len(failed)]

----------------------------------------------------------------------------
(* checkpoint.py: save_checkpoint, load_checkpoint, clear_checkpoint.      *)
(* disk.checkpoint.vcf is checkpoint.vcf as the sequence of vCard records  *)
(* written, disk.checkpoint.meta is checkpoint.json.                       *)

\* The properties _serialise_one writes for a card that serialises.
vcard_record(c) ==
  [fn         |-> IF c.fn # "" THEN c.fn
                  ELSE IF card_n(c) # "" THEN card_n(c) ELSE "Unnamed",
   family     |-> c.family,
   given      |-> c.given,
   emails     |-> Sorted(Range(c.emails), EmailOrder),
   tels       |-> Sorted(Range(c.tels), PhoneOrder),
   org        |-> c.org,
   title      |-> c.title,
   uid        |-> c.uid,
   kind       |-> c.kind,
   categories |-> Sorted(Range(c.categories), CategoryOrder),
   waived     |-> c.waived]

\* `re.sub(r"\s+", "", ...)` on a phone value.
without_spaces(t) == SelectSeq(t, LAMBDA ch : ch # " ")

\* normalize_cards on one record read back from checkpoint.vcf.  It reads
\* FN, N, EMAIL, TEL, ORG, TITLE, BDAY, ANNIVERSARY, UID, REV, ADR, RELATED,
\* CATEGORIES and NOTE; KIND and X-VCARD-STUDIO-WAIVED stay in card.raw.
parse_record(r) ==
  [Card(r.uid, r.fn,
        [k \in 1..Len(r.emails) |-> lower(r.emails[k])],
        [k \in 1..Len(r.tels) |-> without_spaces(r.tels[k])],
        r.org, r.title,
        Sorted(Range(r.categories), CategoryOrder),
        "checkpoint.vcf")
   EXCEPT !.family = r.family, !.given = r.given]

\* save_checkpoint: checkpoint.vcf as export_vcards writes it for the list
\* (heap indices) and checkpoint.json.
save_checkpoint(h, list, review_index, input_count, source_files) ==
  LET written == export_vcards(h, list).written
  IN [exists |-> TRUE,
      vcf    |-> [k \in 1..Len(written) |-> vcard_record(h[written[k]])],
      meta   |-> [review_index |-> review_index, total_cards |-> Len(list),
                  input_count |-> input_count, source_files |-> source_files]]

\* The whole heap as a list of indices.
All(h) == [k \in 1..Len(h) |-> k]

\* report.py build_source_counts: the source labels of the contacts read,
\* each once, in the order they first appear (the keys of the dict).
source_labels(h) ==
  LET firsts == SelectSeq(All(h), LAMBDA k :
                  \A j \in 1..(k - 1) : h[j].source_files[1] # h[k].source_files[1])
  IN [i \in 1..Len(firsts) |-> h[firsts[i]].source_files[1]]

\* server.py _autosave_checkpoint on disk d: `if not cards: return`, else
\* save_checkpoint with the run's input count and source labels.
autosave_checkpoint(d, h, list, input) ==
  IF list = <<>> THEN d
  ELSE [d EXCEPT !.checkpoint =
          save_checkpoint(h, list, 0, Len(input), source_labels(input))]

\* load_checkpoint: None (NoOutcome) unless both files exist.
load_checkpoint(cp) ==
  IF ~cp.exists THEN NoOutcome
  ELSE [kind  |-> "checkpoint",
        cards |-> [k \in 1..Len(cp.vcf) |-> parse_record(cp.vcf[k])],
        meta  |-> cp.meta]

----------------------------------------------------------------------------
(* Scoring two contacts: the scorer applied to a pair of arbitrary cards.  *)

SimPoolA ==
  {Card(u, f, e, t, o, "", <<>>, "icloud") :
     u \in {"", "u1"}, f \in {"", "Alice", "Alice Smith"},
     e \in {<<>>, <<"a@x.com">>},
     t \in {<<>>, <<P_local>>, <<P_short>>, <<P_ext>>},
     o \in {"", "Acme", "Beta"}}

SimPoolB ==
  {Card(u, f, e, t, o, "", <<>>, "proton") :
     u \in {"", "u1", "u2"}, f \in {"", "Alice", "Alice Smith", "Smith Alice"},
     e \in {<<>>, <<"a@x.com">>, <<"b@x.com">>, <<"b@x.com", "a@x.com">>},
     t \in {<<>>, <<P_local>>, <<P_intl>>, <<P_short>>, <<P_ext>>,
            <<P_fmt, P_other>>, <<P_other>>},
     o \in {"", "Acme", "ACME", "Beta"}}

InitSim ==
  /\ mode = "score"
  /\ dry_run = FALSE
  /\ pc = "score"
  /\ \E a \in SimPoolA, b \in SimPoolB : cards = <<a, b>>
  /\ cards0 = cards
  /\ clusters = <<>>
  /\ compared = {}
  /\ merged = <<>>
  /\ decisions = <<>>
  /\ idx = 0
  /\ queue = <<>>
  /\ edits = 0
  /\ answer = ""
  /\ outcome = NoOutcome
  /\ score = -1
  /\ srv = NoServer
  /\ keep_unknown = FALSE
  /\ flagged_delete = {}
  /\ text = <<>>
  /\ disk = NoDisk

Score ==
  /\ pc = "score"
  /\ score' = similarity(cards[1], cards[2])
  /\ pc' = "scored"
  /\ UNCHANGED <<flagged_delete, keep_unknown, text, disk, srv, mode, dry_run, cards, cards0, clusters, compared, merged,
                 decisions, idx, queue, edits, answer, outcome>>

NextSim == Score

SpecSim == InitSim /\ [][NextSim]_vars

----------------------------------------------------------------------------
(* The merge loop shared by cli.py _run_pipeline, launcher.py _merge and   *)
(* server.py _api_process: clusters are resolved in order, merged[k] is    *)
(* the survivor of clusters[k].                                            *)

MaxCards == 3
MaxCluster == 2
MaxEdits == 1

Seqs(S, n) == UNION {[1..k -> S] : k \in 1..n}

Interactive == mode \in {"cli_interactive", "launcher"}

Merging == pc = "merge" /\ idx <= Len(clusters)

Cluster == clusters[idx]

\* The card with index b now holds rec and survives the current cluster.
Resolve(b, rec, how, ans) ==
  /\ cards' = [cards EXCEPT ![b] = rec]
  /\ merged' = Append(merged, b)
  /\ decisions' = Append(decisions, how)
  /\ idx' = idx + 1
  /\ answer' = ans
  /\ UNCHANGED <<flagged_delete, keep_unknown, text, disk, srv, mode, dry_run, pc, cards0, clusters, compared, queue, edits,
                 outcome, score>>

FindDuplicateClusters ==
  /\ pc = "start"
  /\ LET r == find_duplicate_clusters(cards)
     IN clusters' = r.clusters /\ compared' = r.compared
  /\ pc' = "merge"
  /\ idx' = 1
  /\ UNCHANGED <<flagged_delete, keep_unknown, text, disk, srv, mode, dry_run, cards, cards0, merged, decisions, queue, edits,
                 answer, outcome, score>>

\* `if len(cluster) == 1: merged.append(cluster[0])`
KeepSingleton ==
  /\ Merging /\ Len(Cluster) = 1
  /\ merged' = Append(merged, Cluster[1])
  /\ decisions' = Append(decisions, "single")
  /\ idx' = idx + 1
  /\ UNCHANGED <<flagged_delete, keep_unknown, text, disk, srv, mode, dry_run, pc, cards, cards0, clusters, compared, queue,
                 edits, answer, outcome, score>>

\* merged.append(merge_cluster_auto(cluster))
MergeAuto ==
  /\ Merging
  /\ \/ mode \in {"cli_auto", "web"} /\ Len(Cluster) > 1
     \/ mode = "merge"
  /\ Resolve(richest(cards, Cluster), merge_cluster_auto(cards, Cluster),
             "auto", answer)

\* pick_merge on a cluster whose pairs all score >= 95: no prompt.
AutoUnion ==
  /\ Merging /\ Interactive /\ Len(Cluster) > 1
  /\ is_effectively_identical(cards, Cluster)
  /\ LET sc == similarity(cards[Cluster[1]], cards[Cluster[2]])
         rec == union(cards, Cluster)
     IN Resolve(richest(cards, Cluster),
                [rec EXCEPT !.changes =
                   Append(@, Entry("Auto-unioned identical duplicate(s)",
                                   Len(Cluster), <<>>))],
                "autounion", answer)

Prompting ==
  /\ Merging /\ Interactive /\ Len(Cluster) > 1
  /\ ~is_effectively_identical(cards, Cluster)

\* Prompt.ask(choices=[...]) rejects the text and asks again.
Reprompt ==
  /\ Prompting
  /\ \E ans \in Answers :
       /\ ~Accepted(Cluster, ans)
       /\ answer' = ans
  /\ UNCHANGED <<flagged_delete, keep_unknown, text, disk, srv, mode, dry_run, pc, cards, cards0, clusters, compared, merged,
                 decisions, idx, queue, edits, outcome, score>>

\* 'q': raise QuitReview().  No caller catches it, so the run ends with the
\* exception and delivers nothing.
Quit ==
  /\ Prompting
  /\ answer' = "q"
  /\ pc' = "crashed"
  /\ outcome' = [kind |-> "crash", cards |-> <<>>, written |-> <<>>, skipped |-> 0]
  /\ UNCHANGED <<flagged_delete, keep_unknown, text, disk, srv, mode, dry_run, cards, cards0, clusters, compared, merged,
                 decisions, idx, queue, edits, score>>

\* 'u': return _union(cluster)
Union ==
  /\ Prompting
  /\ Resolve(richest(cards, Cluster), union(cards, Cluster), "union", "u")

\* 'd': mark the richest card with the sentinel and return it.
Delete ==
  /\ Prompting
  /\ Resolve(richest(cards, Cluster), mark_deleted(cards, Cluster), "delete", "d")

\* Any other accepted text: _adopt(cluster[base_idx], *others)
Keep ==
  /\ Prompting
  /\ \E ans \in Answers \ {"q", "u", "d"} :
       /\ Accepted(Cluster, ans)
       /\ Resolve(Cluster[base_idx(Cluster, ans)],
                  adopt(cards, Cluster, base_idx(Cluster, ans)), "keep", ans)

----------------------------------------------------------------------------
(* cli.py _run_pipeline after the merge loop.                              *)

Cli == mode \in {"cli_auto", "cli_interactive"}

DupClusters == SelectSeq(clusters, LAMBDA cl : Len(cl) > 1)

\* One pass of "Restore source provenance": the first card of `merged`
\* sharing an email or a phone with the cluster gets the cluster's sources.
restore_one(h, cluster, list) ==
  LET cluster_emails == AllOf(h, cluster, "emails")
      cluster_tels == AllOf(h, cluster, "tels")
      hits == {k \in 1..Len(list) :
                 \/ Range(h[list[k]].emails) \cap cluster_emails # {}
                 \/ Range(h[list[k]].tels) \cap cluster_tels # {}}
      m == list[CHOOSE k \in hits : \A k2 \in hits : k <= k2]
      all_sources == Sorted(AllOf(h, cluster, "source_files"), SourceOrder)
  IN IF hits = {} THEN h
     ELSE [h EXCEPT ![m] =
            [@ EXCEPT !.source_files = all_sources,
                      !.changes = IF Len(all_sources) > 1
                                    THEN Append(@, Entry("Merged from sources", 0,
                                                         all_sources))
                                    ELSE @]]

RECURSIVE restore_all(_, _, _, _)
restore_all(h, dups, list, i) ==
  IF i > Len(dups) THEN h
  ELSE restore_all(restore_one(h, dups[i], list), dups, list, i + 1)

AfterCategories == IF dry_run THEN "export" ELSE "uncategorised"

RestoreProvenance ==
  /\ pc = "merge" /\ idx > Len(clusters) /\ Cli
  /\ cards' = restore_all(cards, DupClusters, merged, 1)
  /\ pc' = IF mode = "cli_interactive" THEN "categories" ELSE AfterCategories
  /\ idx' = 1
  /\ UNCHANGED <<flagged_delete, keep_unknown, text, disk, srv, mode, dry_run, cards0, clusters, compared, merged, decisions,
                 queue, edits, answer, outcome, score>>

\* prompt_categories_interactive: Confirm.ask answered no for this card.
CategoriesKeep ==
  /\ pc = "categories" /\ idx <= Len(merged)
  /\ idx' = idx + 1
  /\ UNCHANGED <<flagged_delete, keep_unknown, text, disk, srv, mode, dry_run, pc, cards, cards0, clusters, compared, merged,
                 decisions, queue, edits, answer, outcome, score>>

\* prompt_categories_interactive: the typed list replaces the categories.
CategoriesEdit ==
  /\ pc = "categories" /\ idx <= Len(merged) /\ edits < MaxEdits
  /\ \E chosen \in {{}, {"Work"}} :
       LET m == merged[idx]
           before == Range(cards[m].categories)
           added == chosen \ before
           removed == before \ chosen
           log1 == IF added # {}
                     THEN Append(cards[m].changes,
                            Entry("Categories added interactively", 0,
                                  Sorted(added, CategoryOrder)))
                     ELSE cards[m].changes
           log2 == IF removed # {}
                     THEN Append(log1,
                            Entry("Categories removed interactively", 0,
                                  Sorted(removed, CategoryOrder)))
                     ELSE log1
       IN cards' = [cards EXCEPT ![m] =
                      [@ EXCEPT !.categories = Sorted(chosen, CategoryOrder),
                                !.changes = log2]]
  /\ idx' = idx + 1
  /\ edits' = edits + 1
  /\ UNCHANGED <<flagged_delete, keep_unknown, text, disk, srv, mode, dry_run, pc, cards0, clusters, compared, merged,
                 decisions, queue, answer, outcome, score>>

CategoriesDone ==
  /\ pc = "categories" /\ idx > Len(merged)
  /\ pc' = AfterCategories
  /\ UNCHANGED <<flagged_delete, keep_unknown, text, disk, srv, mode, dry_run, cards, cards0, clusters, compared, merged,
                 decisions, idx, queue, edits, answer, outcome, score>>

Uncategorised == SelectSeq(merged, LAMBDA m : cards[m].categories = <<>>)

\* prompt_review_uncategorised: nothing to review, or the user declines.
ReviewDeclined ==
  /\ pc = "uncategorised"
  /\ pc' = "export"
  /\ UNCHANGED <<flagged_delete, keep_unknown, text, disk, srv, mode, dry_run, cards, cards0, clusters, compared, merged,
                 decisions, idx, queue, edits, answer, outcome, score>>

ReviewStart ==
  /\ pc = "uncategorised" /\ Uncategorised # <<>>
  /\ queue' = Uncategorised
  /\ idx' = 1
  /\ pc' = "reviewing"
  /\ UNCHANGED <<flagged_delete, keep_unknown, text, disk, srv, mode, dry_run, cards, cards0, clusters, compared, merged,
                 decisions, edits, answer, outcome, score>>

\* An empty line or a space: `continue`.
ReviewSkip ==
  /\ pc = "reviewing" /\ idx <= Len(queue)
  /\ idx' = idx + 1
  /\ UNCHANGED <<flagged_delete, keep_unknown, text, disk, srv, mode, dry_run, pc, cards, cards0, clusters, compared, merged,
                 decisions, queue, edits, answer, outcome, score>>

\* 'd': c.categories = [_DELETE_SENTINEL]
ReviewDelete ==
  /\ pc = "reviewing" /\ idx <= Len(queue) /\ edits < MaxEdits
  /\ cards' = [cards EXCEPT ![queue[idx]] =
                 [@ EXCEPT !.categories = <<DELETE_SENTINEL>>,
                           !.changes = Append(@,
                             Entry("Marked for deletion during review", 0, <<>>))]]
  /\ idx' = idx + 1
  /\ edits' = edits + 1
  /\ UNCHANGED <<flagged_delete, keep_unknown, text, disk, srv, mode, dry_run, pc, cards0, clusters, compared, merged,
                 decisions, queue, answer, outcome, score>>

\* A category token: the chosen category is added.
ReviewTag ==
  /\ pc = "reviewing" /\ idx <= Len(queue) /\ edits < MaxEdits
  /\ \E cat \in {"Work"} :
       LET c == cards[queue[idx]]
           after == Sorted(Range(c.categories) \cup {cat}, CategoryOrder)
           added == Range(after) \ Range(c.categories)
       IN cards' = [cards EXCEPT ![queue[idx]] =
                      [@ EXCEPT !.categories = after,
                                !.changes = IF added # {}
                                  THEN Append(@, Entry("Categories assigned in review",
                                                       0, Sorted(added, CategoryOrder)))
                                  ELSE @]]
  /\ idx' = idx + 1
  /\ edits' = edits + 1
  /\ UNCHANGED <<flagged_delete, keep_unknown, text, disk, srv, mode, dry_run, pc, cards0, clusters, compared, merged,
                 decisions, queue, answer, outcome, score>>

\* 'q', or the end of the list.
ReviewStop ==
  /\ pc = "reviewing"
  /\ pc' = "export"
  /\ UNCHANGED <<flagged_delete, keep_unknown, text, disk, srv, mode, dry_run, cards, cards0, clusters, compared, merged,
                 decisions, idx, queue, edits, answer, outcome, score>>

Marked(c) == DELETE_SENTINEL \in Range(c.categories)

\* Steps 7c to 10: drop the marked cards, then the dry-run return or the export.
ExportCli ==
  /\ pc = "export" /\ Cli
  /\ LET kept == SelectSeq(merged, LAMBDA m : ~Marked(cards[m]))
     IN /\ merged' = kept
        /\ outcome' = IF dry_run
                        THEN [kind |-> "dry_run", cards |-> kept, written |-> <<>>,
                              skipped |-> 0]
                        ELSE export_vcards(cards, kept)
  /\ pc' = "done"
  /\ UNCHANGED <<flagged_delete, keep_unknown, text, disk, srv, mode, dry_run, cards, cards0, clusters, compared, decisions,
                 idx, queue, edits, answer, score>>

----------------------------------------------------------------------------
(* launcher.py _merge and server.py _api_process after the merge loop.     *)

\* export_vcards(merged, out): the merged list goes to the exporter as is.
ExportLauncher ==
  /\ pc = "merge" /\ idx > Len(clusters) /\ mode = "launcher"
  /\ outcome' = export_vcards(cards, merged)
  /\ pc' = "done"
  /\ UNCHANGED <<flagged_delete, keep_unknown, text, disk, srv, mode, dry_run, cards, cards0, clusters, compared, merged,
                 decisions, idx, queue, edits, answer, score>>

\* save_checkpoint(merged, ...); _state["cards"] = merged
StoreWeb ==
  /\ pc = "merge" /\ idx > Len(clusters) /\ mode = "web"
  /\ disk' = [disk EXCEPT !.checkpoint =
               save_checkpoint(cards, merged, 0, Len(cards0), source_labels(cards0))]
  /\ outcome' = [kind |-> "state", cards |-> merged, written |-> <<>>, skipped |-> 0]
  /\ pc' = "done"
  /\ UNCHANGED <<flagged_delete, keep_unknown, text, srv, mode, dry_run, cards, cards0, clusters, compared, merged,
                 decisions, idx, queue, edits, answer, score>>

----------------------------------------------------------------------------
(* Runs: an address book of up to MaxCards contacts goes through one of    *)
(* the run paths.                                                          *)

AliceWork      == Card("", "Alice", <<"a@x.com">>, <<>>, "", "", <<"Work">>, "icloud")
AliceSmithHome == Card("", "Alice Smith", <<"a@x.com">>, <<P_local>>, "", "",
                       <<"Family">>, "proton")
AliceSmithIntl == [Card("", "Alice Smith", <<>>, <<P_intl>>, "Acme", "CEO", <<>>,
                        "proton") EXCEPT !.note = "met at conference"]
BobLandline    == Card("", "Bob", <<>>, <<P_local>>, "", "", <<>>, "icloud")
UidAlice       == Card("u1", "Alice", <<>>, <<>>, "", "", <<>>, "icloud")
UidAliceSmith  == Card("u1", "Alice Smith", <<>>, <<>>, "Acme", "", <<>>, "proton")
EmailOnly      == Card("", "", <<"a@x.com">>, <<>>, "", "", <<>>, "proton")
AliceFull      == Card("", "Alice", <<"a@x.com">>, <<P_local>>, "", "", <<"Work">>,
                       "proton")

PipePool == {AliceWork, AliceSmithHome, AliceSmithIntl, BobLandline, UidAlice,
             UidAliceSmith, EmailOnly, AliceFull}

Init ==
  /\ mode \in {"cli_auto", "cli_interactive", "launcher", "web"}
  /\ dry_run \in BOOLEAN
  /\ dry_run => Cli
  /\ pc = "start"
  /\ cards \in Seqs(PipePool, MaxCards)
  /\ cards0 = cards
  /\ clusters = <<>>
  /\ compared = {}
  /\ merged = <<>>
  /\ decisions = <<>>
  /\ idx = 0
  /\ queue = <<>>
  /\ edits = 0
  /\ answer = ""
  /\ outcome = NoOutcome
  /\ score = -1
  /\ srv = NoServer
  /\ keep_unknown = FALSE
  /\ flagged_delete = {}
  /\ text = <<>>
  /\ disk = NoDisk

Next ==
  \/ FindDuplicateClusters
  \/ KeepSingleton
  \/ MergeAuto
  \/ AutoUnion
  \/ Reprompt
  \/ Quit
  \/ Union
  \/ Delete
  \/ Keep
  \/ RestoreProvenance
  \/ CategoriesKeep
  \/ CategoriesEdit
  \/ CategoriesDone
  \/ ReviewDeclined
  \/ ReviewStart
  \/ ReviewSkip
  \/ ReviewDelete
  \/ ReviewTag
  \/ ReviewStop
  \/ ExportCli
  \/ ExportLauncher
  \/ StoreWeb

Spec == Init /\ [][Next]_vars

----------------------------------------------------------------------------
(* merge_cluster_auto on an arbitrary cluster (the web UI's manual merge   *)
(* and the tests hand it any list of cards).                               *)

MergePool ==
  {Card("", f, e, t, o, IF o = "" THEN "" ELSE "CEO", c, "icloud") :
     f \in {"", "Alice", "Alice Smith"},
     e \in {<<>>, <<"a@x.com">>, <<"b@x.com", "a@x.com">>},
     t \in {<<>>, <<P_local>>},
     o \in {"", "Acme"},
     c \in {<<>>, <<"Work">>, <<"Family", "Work">>}}

InitMerge ==
  /\ mode = "merge"
  /\ dry_run = FALSE
  /\ pc = "merge"
  /\ \E k \in 2..MaxCluster : cards \in [1..k -> MergePool]
  /\ cards0 = cards
  /\ clusters = << [i \in 1..Len(cards) |-> i] >>
  /\ compared = {}
  /\ merged = <<>>
  /\ decisions = <<>>
  /\ idx = 1
  /\ queue = <<>>
  /\ edits = 0
  /\ answer = ""
  /\ outcome = NoOutcome
  /\ score = -1
  /\ srv = NoServer
  /\ keep_unknown = FALSE
  /\ flagged_delete = {}
  /\ text = <<>>
  /\ disk = NoDisk

NextMerge == MergeAuto

SpecMerge == InitMerge /\ [][NextMerge]_vars

----------------------------------------------------------------------------
(* Exporting a list of contacts: export_vcards and                         *)
(* export_vcards_individual applied to arbitrary lists.  A contact with    *)
(* typed = TRUE is one that carries the typed_emails and typed_tels        *)
(* attributes the serialiser reads.                                        *)

ExportPool ==
  {[Card("", f, <<"a@x.com">>, <<P_local>>, "", "", <<"Work">>, "icloud")
      EXCEPT !.family = nm[1], !.given = nm[2], !.typed = t] :
     f \in {"", "Alice", "Bob"},
     nm \in {<<"", "">>, <<"Smith", "Alice">>, <<"Jones", "Bob">>},
     t \in BOOLEAN}

InitExport ==
  /\ mode = "export"
  /\ dry_run = FALSE
  /\ pc = "export"
  /\ cards \in Seqs(ExportPool, MaxCards)
  /\ cards0 = cards
  /\ clusters = <<>>
  /\ compared = {}
  /\ merged = [i \in 1..Len(cards) |-> i]
  /\ decisions = <<>>
  /\ idx = 0
  /\ queue = <<>>
  /\ edits = 0
  /\ answer = ""
  /\ outcome = NoOutcome
  /\ score = -1
  /\ srv = NoServer
  /\ keep_unknown = FALSE
  /\ flagged_delete = {}
  /\ text = <<>>
  /\ disk = NoDisk

ExportCombined ==
  /\ mode = "export" /\ pc = "export"
  /\ outcome' = export_vcards(cards, merged)
  /\ pc' = "done"
  /\ UNCHANGED <<flagged_delete, keep_unknown, text, disk, srv, mode, dry_run, cards, cards0, clusters, compared, merged,
                 decisions, idx, queue, edits, answer, score>>

ExportIndividual ==
  /\ mode = "export" /\ pc = "export"
  /\ outcome' = export_vcards_individual(cards, merged)
  /\ pc' = "done"
  /\ UNCHANGED <<flagged_delete, keep_unknown, text, disk, srv, mode, dry_run, cards, cards0, clusters, compared, merged,
                 decisions, idx, queue, edits, answer, score>>

NextExport == ExportCombined \/ ExportIndividual

SpecExport == InitExport /\ [][NextExport]_vars

----------------------------------------------------------------------------
(* formatters.py: normalize_phones_in_cards, classify_entities and         *)
(* auto_tag_categories, the stages of a run before clustering.             *)

\* Numbers phonenumbers parses as valid with region GB.
ValidNumbers == {P_local, P_intl, P_fmt, P_other, P_other_fmt}

\* _format_spaced_e164 of a valid number: "+44 7980 220 220".
format_spaced_e164(t) ==
  IF t \in {P_other, P_other_fmt} THEN P_other_fmt ELSE P_fmt

\* The body of the loop of normalize_phones_in_cards for one card.
normalize_phones(c) ==
  LET fmt(t) == IF t \in ValidNumbers THEN format_spaced_e164(t) ELSE t
      reformatted == SelectSeq(c.tels, LAMBDA t : fmt(t) # t)
      c1 == [c EXCEPT !.tels = Sorted({fmt(t) : t \in Range(c.tels)}, PhoneOrder)]
  IN IF reformatted # <<>>
       THEN log_change(c1, Entry("Phone(s) reformatted", Len(reformatted), <<>>))
       ELSE c1

\* Display names of at most three characters.
ShortNames == {"Bob"}

\* Display names holding an "@".
EmailLikeNames == {"a@x.com"}

\* Names and organisations holding a legal-entity token such as " ltd".
LegalEntityNames == {"Acme Ltd"}

\* Names a never-email-only test would let through.
NeverEmailOnlyMutant(c) == FALSE

is_email_only(c) ==
  LET has_real_name == c.fn # "" /\ c.fn \notin EmailLikeNames
                       /\ c.fn \notin ShortNames
  IN ~(has_real_name \/ c.org # "" \/ c.tels # <<>>)

\* Names _PERSONAL_NAME_RE matches: two capitalised words.
PersonShapedNames == {"Alice Smith", "Smith Alice", "Jane Doe", "Acme Taxi", "Taxi Jane"}

\* Names with a word of _BUSINESS_SECOND_WORDS.
BusinessWordNames == {"Acme Taxi", "Taxi Jane"}

looks_like_person(fn) == fn \in PersonShapedNames /\ fn \notin BusinessWordNames

\* A classification that takes the name's shape alone as proof of a person.
NameAloneMutant(c) ==
  IF looks_like_person(c.fn)
    THEN log_change([c EXCEPT !.kind = "individual"],
                    Entry("KIND set to 'individual'", 0, <<>>))
  ELSE c

\* The body of the loop of classify_entities for one card.
classify(c) ==
  IF c.kind # "" \/ is_email_only(c) THEN c
  ELSE IF c.org \in LegalEntityNames \/ c.fn \in LegalEntityNames
    THEN log_change([c EXCEPT !.kind = "org"], Entry("KIND set to 'org'", 0, <<>>))
  ELSE IF looks_like_person(c.fn) /\ c.tels # <<>>
    THEN log_change([c EXCEPT !.kind = "individual"],
                    Entry("KIND set to 'individual'", 0, <<>>))
  ELSE c

\* A rule (category, patterns): `hits` are the names, organisations and
\* titles of this universe in which one of its patterns occurs.
Rule(category, hits) == [category |-> category, hits |-> hits]

\* _DEFAULT_CATEGORY_RULES: only the Work patterns occur in this universe.
DEFAULT_CATEGORY_RULES ==
  <<Rule("Work", LegalEntityNames), Rule("Family", {}), Rule("Friends", {}),
    Rule("School", {}), Rule("Medical", {}), Rule("Finance", {}),
    Rule("Government", {})>>

\* _matches_rule: the haystack is made of name, organisation and title only.
matches_rule(c, rule) == {c.fn, c.org, c.title} \cap rule.hits # {}

\* The loop `for category, patterns in effective_rules` from rule i on:
\* the categories and the `added` list it ends with.
RECURSIVE TagFrom(_, _, _, _, _)
TagFrom(c, rules, i, cats, added) ==
  IF i > Len(rules) THEN [cats |-> cats, added |-> added]
  ELSE IF rules[i].hits = {} \/ rules[i].category \in Range(cats)
          \/ ~matches_rule(c, rules[i])
    THEN TagFrom(c, rules, i + 1, cats, added)
  ELSE TagFrom(c, rules, i + 1, Append(cats, rules[i].category),
               Append(added, rules[i].category))

\* The body of the loop of auto_tag_categories for one card.
auto_tag_categories(c, rules) ==
  LET r == TagFrom(c, rules, 1, c.categories, <<>>)
  IN IF is_email_only(c) \/ r.added = <<>> THEN c
     ELSE log_change([c EXCEPT !.categories = Sorted(Range(r.cats), CategoryOrder)],
                     Entry("Auto-tagged categories", 0,
                           Sorted(Range(r.added), CategoryOrder)))

\* auto_tag_categories with `rules=None`.
auto_tag(c) == auto_tag_categories(c, DEFAULT_CATEGORY_RULES)

PrepFrame ==
  UNCHANGED <<flagged_delete, keep_unknown, text, disk, srv, mode, dry_run, clusters, compared, merged, decisions, idx,
              queue, edits, answer, outcome, score>>

NormalizePhones ==
  /\ pc = "phones"
  /\ cards' = [i \in DOMAIN cards |-> normalize_phones(cards[i])]
  /\ cards0' = cards'
  /\ pc' = "classify"
  /\ PrepFrame

\* The launcher's merge asks before cleaning up and may skip it.
SkipCleanup ==
  /\ pc = "phones" /\ mode = "launcher"
  /\ pc' = "start"
  /\ UNCHANGED <<cards, cards0>>
  /\ PrepFrame

ClassifyEntities ==
  /\ pc = "classify"
  /\ cards' = [i \in DOMAIN cards |-> classify(cards[i])]
  /\ cards0' = cards'
  /\ pc' = IF mode = "launcher" THEN "start" ELSE "tag"
  /\ PrepFrame

AutoTagCategories ==
  /\ pc = "tag"
  /\ cards' = [i \in DOMAIN cards |-> auto_tag(cards[i])]
  /\ cards0' = cards'
  /\ pc' = "start"
  /\ PrepFrame

\* cli.py: `if auto_categories:` is off.
SkipAutoTag ==
  /\ pc = "tag" /\ Cli
  /\ pc' = "start"
  /\ UNCHANGED <<cards, cards0>>
  /\ PrepFrame

----------------------------------------------------------------------------
(* server.py: the web UI's operations on _state["cards"], which a run      *)
(* leaves in outcome.cards.                                                *)

\* The requests a session may still make: MaxEdits after a run, MaxLinks in
\* a session of link and unlink requests.
MaxLinks == 3

Budget == IF mode = "web_links" THEN MaxLinks ELSE MaxEdits

Serving ==
  mode \in {"web", "web_links", "web_merge"} /\ pc = "done" /\ outcome.kind = "state" /\ edits < Budget

WebFrame ==
  UNCHANGED <<flagged_delete, keep_unknown, text, srv, mode, dry_run, pc, cards0, clusters, compared, merged,
              decisions, idx, queue, answer, score>>

\* list.pop(p)
Pop(list, p) == SubSeq(list, 1, p - 1) \o SubSeq(list, p + 1, Len(list))

\* _api_update_card with field fn, org, title or categories; it returns
\* without a call of _autosave_checkpoint.
WebUpdate ==
  /\ Serving
  /\ \E p \in 1..Len(outcome.cards) :
       \E field \in {"fn", "org", "title", "categories"} :
         \E value \in IF field = "fn" THEN {"Alice Smith"}
                      ELSE IF field = "org" THEN {"Acme"}
                      ELSE IF field = "title" THEN {"CEO"}
                      ELSE {<<>>, <<"Work", "Family">>} :
           cards' = [cards EXCEPT ![outcome.cards[p]] =
                       log_change([@ EXCEPT ![field] = value],
                                  Entry("Edited via web UI", 0, <<field>>))]
  /\ edits' = edits + 1
  /\ UNCHANGED <<outcome, disk>>
  /\ WebFrame

\* _api_update_card with field "delete": pop and return.
WebUpdateDelete ==
  /\ Serving
  /\ \E p \in 1..Len(outcome.cards) :
       outcome' = [outcome EXCEPT !.cards = Pop(@, p)]
  /\ edits' = edits + 1
  /\ UNCHANGED <<cards, disk>>
  /\ WebFrame

\* _api_delete_card: pop, then _autosave_checkpoint.
WebDelete ==
  /\ Serving
  /\ \E p \in 1..Len(outcome.cards) :
       outcome' = [outcome EXCEPT !.cards = Pop(@, p)]
  /\ disk' = autosave_checkpoint(disk, cards, outcome'.cards, cards0)
  /\ edits' = edits + 1
  /\ UNCHANGED cards
  /\ WebFrame

\* _api_add_card: `re.split` is evaluated with no `re` bound in the function
\* or the module (only `import re as _re`), the NameError is caught and an
\* error is returned before a card is built or appended.
WebAdd ==
  /\ Serving
  /\ edits' = edits + 1
  /\ UNCHANGED <<cards, outcome, disk>>
  /\ WebFrame

\* _api_full_update_card: the scalar fields and the structured name are
\* assigned, then `from .model import TypedValue` raises ImportError, before
\* the log entry and _autosave_checkpoint.
WebFullUpdate ==
  /\ Serving
  /\ \E p \in 1..Len(outcome.cards) :
       \E fn \in {"Alice Smith", "Bob"} :
         cards' = [cards EXCEPT ![outcome.cards[p]] =
                     [@ EXCEPT !.fn = fn, !.org = "", !.title = "", !.bday = "",
                               !.anniversary = "", !.note = "",
                               !.kind = "individual",
                               !.family = "", !.given = ""]]
  /\ edits' = edits + 1
  /\ UNCHANGED <<outcome, disk>>
  /\ WebFrame

Reciprocal(rel_type) ==
  CASE rel_type = "parent" -> "child"
    [] rel_type = "child" -> "parent"
    [] OTHER -> rel_type

\* `x or y` on strings.
Or(x, y) == IF x # "" THEN x ELSE y

Related(rel_type, c) ==
  [rel_type |-> rel_type, uid |-> c.uid, text |-> Or(c.fn, c.org)]

\* The links of c that do not point at the card other.
Unrelated(c, other) ==
  SelectSeq(c.related,
            LAMBDA r : ~(r.uid # "" /\ r.uid = other.uid)
                       /\ ~(r.text # "" /\ r.text = other.fn))

\* _api_link_related
WebLink ==
  /\ Serving
  /\ \E fi, ti \in 1..Len(outcome.cards) :
       \E rel_type \in {"spouse", "parent"} :
         /\ fi # ti
         /\ LET f == outcome.cards[fi]
                t == outcome.cards[ti]
                from_card == cards[f]
                to_card == cards[t]
            IN cards' = [cards EXCEPT
                 ![f] = log_change(
                          [@ EXCEPT !.related = Append(Unrelated(from_card, to_card),
                                                       Related(rel_type, to_card))],
                          Entry("Linked", 0, <<rel_type, Or(to_card.fn, to_card.org)>>)),
                 ![t] = log_change(
                          [@ EXCEPT !.related = Append(Unrelated(to_card, from_card),
                                                       Related(Reciprocal(rel_type),
                                                               from_card))],
                          Entry("Linked", 0,
                                <<Reciprocal(rel_type),
                                  Or(from_card.fn, from_card.org)>>))]
  /\ disk' = autosave_checkpoint(disk, cards', outcome.cards, cards0)
  /\ edits' = edits + 1
  /\ UNCHANGED outcome
  /\ WebFrame

\* _api_unlink_related: the links to target_uid leave from_card, the links
\* back leave the card with that uid; log entry, _autosave_checkpoint.
\* from_uid is `from_card.uid or ""`, and a link to a card without uid has
\* uid None, which differs from "": without a uid on from_card every link of
\* the target stays.
WebUnlink ==
  /\ Serving
  /\ \E fi \in 1..Len(outcome.cards) :
       \E target_uid \in {"u1", "u2"} :
         LET f == outcome.cards[fi]
             from_uid == cards[f].uid
             unlinked == [cards EXCEPT ![f].related =
                            SelectSeq(@, LAMBDA r : r.uid # target_uid)]
             back == [m \in 1..Len(cards) |->
                        IF m \in Range(outcome.cards) /\ unlinked[m].uid = target_uid
                          THEN [unlinked[m] EXCEPT !.related =
                                  SelectSeq(@, LAMBDA r : from_uid = "" \/ r.uid # from_uid)]
                          ELSE unlinked[m]]
         IN cards' = [back EXCEPT ![f] =
                        log_change(@, Entry("Unlinked UID", 0, <<target_uid>>))]
  /\ disk' = autosave_checkpoint(disk, cards', outcome.cards, cards0)
  /\ edits' = edits + 1
  /\ UNCHANGED outcome
  /\ WebFrame

\* Sequences of distinct positions of a list, 2 to MaxCluster long.
Selections(list) ==
  UNION {{sel \in [1..k -> 1..Len(list)] :
            \A x, y \in 1..k : x # y => sel[x] # sel[y]} : k \in 2..MaxCluster}

\* Any `indices` a request may carry: none to MaxCluster + 1 positions, some
\* out of range (0 and Len(list) + 1), some repeated.
AnyIndices(list) ==
  UNION {[1..k -> 0..(Len(list) + 1)] : k \in 0..(MaxCluster + 1)}

\* The `indices` of the merge requests of a session.
MergeRequests(list) ==
  IF mode = "web_merge" THEN AnyIndices(list) ELSE Selections(list)

\* The three tests of _api_merge_cards that answer with an error.
valid_indices(list, indices) ==
  /\ Len(indices) >= 2
  /\ \A x \in 1..Len(indices) : indices[x] >= 1 /\ indices[x] <= Len(list)
  /\ Cardinality(Range(indices)) = Len(indices)

\* A merged contact that goes to the end of the list.
AppendMergedMutant(indices, remaining) == remaining + 1

\* insert_at: keep_pos = min(indices) less the popped positions below it
\* (there are none), clamped to the list that remains.
insert_at(indices, remaining) ==
  LET keep_pos == CHOOSE x \in Range(indices) : \A y \in Range(indices) : x <= y
      below == Cardinality({x \in 1..Len(indices) : indices[x] < keep_pos})
  IN Min(keep_pos - below, remaining + 1)

\* _api_merge_cards on heap h and list: merge_cluster_auto on the chosen
\* cards, a log entry on the result, the members popped and the result
\* inserted; an invalid request changes nothing.
api_merge_cards(h, list, indices) ==
  IF ~valid_indices(list, indices) THEN [ok |-> FALSE, cards |-> h, list |-> list]
  ELSE LET cluster == [x \in 1..Len(indices) |-> list[indices[x]]]
           b == richest(h, cluster)
           rest == SelectSeq(list, LAMBDA m : m \notin Range(cluster))
           at == insert_at(indices, Len(rest))
       IN [ok    |-> TRUE,
           cards |-> [h EXCEPT ![b] =
                        log_change(merge_cluster_auto(h, cluster),
                                   Entry("Manually merged", Len(indices), <<>>))],
           list  |-> SubSeq(rest, 1, at - 1) \o <<b>> \o SubSeq(rest, at, Len(rest))]

\* POST /api/merge_cards; _autosave_checkpoint follows a merge that was made.
WebMerge ==
  /\ Serving
  /\ \E indices \in MergeRequests(outcome.cards) :
       LET r == api_merge_cards(cards, outcome.cards, indices)
       IN /\ cards' = r.cards
          /\ outcome' = [outcome EXCEPT !.cards = r.list]
          /\ disk' = IF r.ok THEN autosave_checkpoint(disk, r.cards, r.list, cards0)
                     ELSE disk
  /\ edits' = edits + 1
  /\ WebFrame

----------------------------------------------------------------------------
(* Whole runs: contacts as normalize_cards returns them go through the     *)
(* stages before clustering, one of the run paths and, in the web UI, the  *)
(* operations on the result.                                               *)

Stripped == Entry("Stripped photo/logo/sound property(ies)", 1, <<>>)

RawAlice      == Card("", "Alice", <<"a@x.com">>, <<>>, "", "", <<>>, "icloud")
RawAliceSmith == log_change(Card("", "Alice Smith", <<"a@x.com">>, <<P_local>>, "",
                                 "", <<"Family">>, "proton"), Stripped)
RawBobAcme    == Card("u2", "Bob", <<>>, <<P_intl, P_short>>, "Acme Ltd", "", <<>>,
                      "icloud")

RawPool == {RawAlice, RawAliceSmith, RawBobAcme}

InitAudit ==
  /\ mode \in {"cli_auto", "cli_interactive", "launcher", "web"}
  /\ dry_run \in BOOLEAN
  /\ dry_run => Cli
  /\ pc = "phones"
  /\ cards \in Seqs(RawPool, MaxCards)
  /\ cards0 = cards
  /\ clusters = <<>>
  /\ compared = {}
  /\ merged = <<>>
  /\ decisions = <<>>
  /\ idx = 0
  /\ queue = <<>>
  /\ edits = 0
  /\ answer = ""
  /\ outcome = NoOutcome
  /\ score = -1
  /\ srv = NoServer
  /\ keep_unknown = FALSE
  /\ flagged_delete = {}
  /\ text = <<>>
  /\ disk = NoDisk

NextAudit ==
  \/ NormalizePhones
  \/ SkipCleanup
  \/ ClassifyEntities
  \/ AutoTagCategories
  \/ SkipAutoTag
  \/ Next
  \/ WebUpdate
  \/ WebUpdateDelete
  \/ WebDelete
  \/ WebAdd
  \/ WebFullUpdate
  \/ WebLink
  \/ WebUnlink
  \/ WebMerge

SpecAudit == InitAudit /\ [][NextAudit]_vars

----------------------------------------------------------------------------
(* server.py: POST /api/process.  _api_process starts a daemon thread that *)
(* runs _run and returns at once; the threads share _state.  A thread's    *)
(* steps are the stretches of _run between its writes to _state.           *)

MaxRuns == 2

\* A .vcf file of cards-in/: the contacts normalize_cards makes of it, or a
\* file whose read_text raises OSError.
File(contacts) == [readable |-> TRUE, contacts |-> contacts]

Unreadable == [readable |-> FALSE, contacts |-> <<>>]

\* What collect_merge_sources may find in cards-in/.
ServerInputs ==
  {<<>>, <<File(<<BobLandline>>)>>, <<File(<<AliceWork>>), File(<<AliceSmithHome>>)>>,
   <<File(<<BobLandline, AliceFull>>)>>, <<File(<<AliceWork>>), Unreadable>>}

\* read_vcards_from_files and normalize_cards on files that can all be read.
RECURSIVE read_files(_)
read_files(files) ==
  IF files = <<>> THEN <<>> ELSE Head(files).contacts \o read_files(Tail(files))

Run(t) == srv.runs[t]

At(t, where) == t \in 1..Len(srv.runs) /\ Run(t).pc = where

\* The `merged` list of _run: one contact per cluster of `local`.
run_merge(local) ==
  LET cl == find_duplicate_clusters(local).clusters
  IN [k \in 1..Len(cl) |->
        IF Len(cl[k]) = 1 THEN local[cl[k][1]]
        ELSE merge_cluster_auto(local, cl[k])]

InitServer ==
  /\ mode = "server"
  /\ dry_run = FALSE
  /\ pc = "serve"
  /\ cards = <<>>
  /\ cards0 = <<>>
  /\ clusters = <<>>
  /\ compared = {}
  /\ merged = <<>>
  /\ decisions = <<>>
  /\ idx = 0
  /\ queue = <<>>
  /\ edits = 0
  /\ answer = ""
  /\ outcome = NoOutcome
  /\ score = -1
  /\ srv = NoServer
  /\ keep_unknown = FALSE
  /\ flagged_delete = {}
  /\ text = <<>>
  /\ disk = NoDisk

ServerFrame ==
  UNCHANGED <<flagged_delete, keep_unknown, text, disk, mode, dry_run, pc, cards, cards0, clusters, compared, merged,
              decisions, idx, queue, edits, answer, outcome, score>>

\* _api_process: threading.Thread(target=_run).start(), whatever the status.
ProcessRequest ==
  /\ mode = "server"
  /\ Len(srv.runs) < MaxRuns
  /\ srv' = [srv EXCEPT !.runs = Append(@, [pc |-> "start", files |-> <<>>, local |-> <<>>,
                                   halted_by |-> ""])]
  /\ ServerFrame

\* _state["status"] = "processing"; _state["progress"] = 5;
\* files = collect_merge_sources(merge_dir)
RunStart(t) ==
  /\ At(t, "start")
  /\ \E files \in ServerInputs :
       srv' = [srv EXCEPT !.status = "processing", !.progress = 5,
                          !.runs[t].pc = "read", !.runs[t].files = files]
  /\ ServerFrame

\* A return on missing input that leaves the status as it is.
SilentNoFilesMutant(t) ==
  /\ At(t, "read") /\ Run(t).files = <<>>
  /\ srv' = [srv EXCEPT !.runs[t].pc = "ended", !.runs[t].halted_by = "no files"]
  /\ ServerFrame

\* `if not files:` status "error", message "No .vcf files found", return.
RunNoFiles(t) ==
  /\ At(t, "read") /\ Run(t).files = <<>>
  /\ srv' = [srv EXCEPT !.status = "error", !.runs[t].pc = "ended",
                        !.runs[t].halted_by = "no files"]
  /\ ServerFrame

\* Reading (which sets _state["input_count"] and _state["source_counts"]),
\* normalising, stripping, classifying and tagging the files.
RunRead(t) ==
  /\ At(t, "read") /\ Run(t).files # <<>>
  /\ \A x \in 1..Len(Run(t).files) : Run(t).files[x].readable
  /\ srv' = [srv EXCEPT !.progress = 65, !.runs[t].pc = "dedupe",
                        !.input = read_files(Run(t).files),
                        !.runs[t].local = read_files(Run(t).files)]
  /\ ServerFrame

\* read_vcards_from_files has no handler around p.read_text: the OSError of
\* one file reaches `except Exception` of _run.
RunReadFails(t) ==
  /\ At(t, "read")
  /\ \E x \in 1..Len(Run(t).files) : ~Run(t).files[x].readable
  /\ srv' = [srv EXCEPT !.status = "error", !.progress = 0,
                        !.runs[t].pc = "ended", !.runs[t].halted_by = "file"]
  /\ ServerFrame

\* find_duplicate_clusters and the merge loop.
RunMerge(t) ==
  /\ At(t, "dedupe")
  /\ srv' = [srv EXCEPT !.progress = 95, !.runs[t].pc = "store",
                        !.runs[t].local = run_merge(Run(t).local)]
  /\ ServerFrame

\* save_checkpoint; _state["cards"] = merged; status "loaded".
RunStore(t) ==
  /\ At(t, "store")
  /\ disk' = [disk EXCEPT !.checkpoint =
               save_checkpoint(Run(t).local, All(Run(t).local), 0,
                               Len(read_files(Run(t).files)),
                               source_labels(read_files(Run(t).files)))]
  /\ srv' = [srv EXCEPT !.cards = Run(t).local, !.status = "loaded",
                        !.progress = 100, !.runs[t].pc = "ended"]
  /\ UNCHANGED <<flagged_delete, keep_unknown, text, mode, dry_run, pc, cards, cards0, clusters, compared,
                 merged, decisions, idx, queue, edits, answer, outcome, score>>

\* Any other exception in _run (such as a failing save_checkpoint): status
\* "error", progress 0.
RunFail(t) ==
  /\ t \in 1..Len(srv.runs) /\ Run(t).pc \in {"dedupe", "store"}
  /\ srv' = [srv EXCEPT !.status = "error", !.progress = 0,
                        !.runs[t].pc = "ended", !.runs[t].halted_by = "exception"]
  /\ ServerFrame

\* The requests the HTTP thread serves while runs are in flight; `decisions`
\* records what the user did and which runs were in flight at that moment.
Running == {t \in 1..Len(srv.runs) : Run(t).pc # "ended"}

Did(op, card) == [op |-> op, card |-> card, during |-> Running]

\* _api_update_card with field fn on _state["cards"].
ServeUpdate ==
  /\ mode = "server" /\ edits < MaxEdits
  /\ \E p \in 1..Len(srv.cards) :
       LET edited == log_change([srv.cards[p] EXCEPT !.fn = "Alice Smith"],
                                Entry("Edited via web UI", 0, <<"fn">>))
       IN /\ srv' = [srv EXCEPT !.cards[p] = edited]
          /\ decisions' = Append(decisions, Did("update", edited))
  /\ edits' = edits + 1
  /\ UNCHANGED <<flagged_delete, keep_unknown, text, disk, mode, dry_run, pc, cards, cards0, clusters, compared,
                 merged, idx, queue, answer, outcome, score>>

\* _api_delete_card on _state["cards"].
ServeDelete ==
  /\ mode = "server" /\ edits < MaxEdits
  /\ \E p \in 1..Len(srv.cards) :
       /\ srv' = [srv EXCEPT !.cards = Pop(@, p)]
       /\ decisions' = Append(decisions, Did("delete", srv.cards[p]))
  /\ disk' = autosave_checkpoint(disk, srv'.cards, All(srv'.cards), srv.input)
  /\ edits' = edits + 1
  /\ UNCHANGED <<flagged_delete, keep_unknown, text, mode, dry_run, pc, cards, cards0, clusters, compared,
                 merged, idx, queue, answer, outcome, score>>

NextServer ==
  \/ ProcessRequest
  \/ ServeUpdate
  \/ ServeDelete
  \/ \E t \in 1..MaxRuns :
       \/ RunStart(t)
       \/ RunNoFiles(t)
       \/ RunRead(t)
       \/ RunReadFails(t)
       \/ RunMerge(t)
       \/ RunStore(t)
       \/ RunFail(t)

SpecServer == InitServer /\ [][NextServer]_vars

\* The steps of the thread of run t.
RunStep(t) ==
  \/ RunStart(t)
  \/ RunNoFiles(t)
  \/ RunRead(t)
  \/ RunReadFails(t)
  \/ RunMerge(t)
  \/ RunStore(t)
  \/ RunFail(t)

\* Process requests and the threads they start, with no other request served.
NextRuns ==
  \/ ProcessRequest
  \/ \E t \in 1..MaxRuns : RunStep(t)

\* While a thread has not returned from _run, some thread is scheduled.
SpecServerFair ==
  InitServer /\ [][NextRuns]_vars /\ WF_vars(\E t \in 1..MaxRuns : RunStep(t))

----------------------------------------------------------------------------
(* classify_entities and auto_tag_categories called in any order, any      *)
(* number of times, on one contact.                                        *)

ClassifyPool ==
  {[Card("", f, e, t, o, ti, c, "icloud") EXCEPT !.kind = k] :
     f \in {"", "a@x.com", "Bob", "Alice", "Jane Doe", "Acme Taxi", "Acme Ltd"},
     e \in {<<>>, <<"a@x.com">>},
     t \in {<<>>, <<P_local>>},
     o \in {"", "Acme Ltd"},
     ti \in {"", "CEO"},
     c \in {<<>>, <<"Work">>},
     k \in {"", "org"}}

\* The rule sets given to auto_tag_categories: the default, and custom rules
\* whose patterns occur in an address used as name, in a title or in a name.
RuleSets ==
  {DEFAULT_CATEGORY_RULES,
   <<Rule("Family", {"a@x.com", "CEO"}), Rule("Work", {"CEO"})>>,
   <<Rule("Family", {"Jane Doe", "Alice"})>>}

InitClassify ==
  /\ mode = "formatters"
  /\ dry_run = FALSE
  /\ pc = "fresh"
  /\ cards \in [1..1 -> ClassifyPool]
  /\ cards0 = cards
  /\ clusters = <<>>
  /\ compared = {}
  /\ merged = <<>>
  /\ decisions = <<>>
  /\ idx = 0
  /\ queue = <<>>
  /\ edits = 0
  /\ answer = ""
  /\ outcome = NoOutcome
  /\ score = -1
  /\ srv = NoServer
  /\ keep_unknown = FALSE
  /\ flagged_delete = {}
  /\ text = <<>>
  /\ disk = NoDisk

\* pc records which of the two functions have been called so far.
Called(now, fn) ==
  IF now = "fresh" \/ now = fn THEN fn ELSE "classified and tagged"

\* classify_entities(cards)
ClassifyCall ==
  /\ mode = "formatters"
  /\ cards' = [i \in DOMAIN cards |-> classify(cards[i])]
  /\ pc' = Called(pc, "classified")
  /\ UNCHANGED cards0
  /\ PrepFrame

\* auto_tag_categories(cards, rules)
TagCall ==
  /\ mode = "formatters"
  /\ \E rules \in RuleSets :
       cards' = [i \in DOMAIN cards |-> auto_tag_categories(cards[i], rules)]
  /\ pc' = Called(pc, "tagged")
  /\ UNCHANGED cards0
  /\ PrepFrame

NextClassify == ClassifyCall \/ TagCall

SpecClassify == InitClassify /\ [][NextClassify]_vars

----------------------------------------------------------------------------
(* proprietary.py: DefaultStripper.  Card.raw is the list of the names of  *)
(* the raw vobject's children; a name is a sequence of characters.         *)

MaxProps == 2

LowerCase == <<"a", "b", "c", "d", "e", "f", "g", "i", "k", "l", "m", "n", "o", "r",
               "s", "t", "u", "v", "x">>
UpperCase == <<"A", "B", "C", "D", "E", "F", "G", "I", "K", "L", "M", "N", "O", "R",
               "S", "T", "U", "V", "X">>

\* re.I on one character.
Upper(ch) ==
  IF \E k \in 1..Len(LowerCase) : LowerCase[k] = ch
    THEN UpperCase[CHOOSE k \in 1..Len(LowerCase) : LowerCase[k] = ch]
  ELSE ch

\* re.match(r"^PREFIX.*", name, re.I) for an upper-case literal prefix.
StartsWith(name, prefix) ==
  /\ Len(name) >= Len(prefix)
  /\ \A k \in 1..Len(prefix) : Upper(name[k]) = prefix[k]

\* re.match(r"^item\d+\..*", name, re.I)
ItemGroup(name) ==
  /\ StartsWith(name, <<"I", "T", "E", "M">>)
  /\ \E k \in 5..Len(name) - 1 :
       /\ \A d \in 5..k : name[d] \in Digits
       /\ name[k + 1] = "."

\* proprietary.py WHITELIST
WHITELIST == {}

\* A stripper that only knows the generic X- rule.
GenericOnlyMutant(name, keep) == StartsWith(name, <<"X", "-">>) /\ ~keep

\* DefaultStripper._should_strip with self.keep_unknown = keep
should_strip(name, keep) ==
  IF [k \in 1..Len(name) |-> Upper(name[k])] \in WHITELIST THEN FALSE
  ELSE IF StartsWith(name, <<"X", "-", "A", "B">>)
          \/ StartsWith(name, <<"X", "-", "A", "D", "D", "R", "E", "S", "S", "B", "O",
                                "O", "K", "S", "E", "R", "V", "E", "R">>)
          \/ ItemGroup(name) THEN TRUE
  ELSE IF StartsWith(name, <<"X", "-", "G", "O", "O", "G", "L", "E">>) THEN TRUE
  ELSE IF StartsWith(name, <<"X", "-">>) THEN ~keep
  ELSE FALSE

\* DefaultStripper.strip: the matching children leave card.raw; nothing
\* else of the card is touched.
strip(c, keep) ==
  [c EXCEPT !.raw = SelectSeq(@, LAMBDA name : ~should_strip(name, keep))]

N_XABUID  == <<"X", "-", "A", "B", "U", "I", "D">>
N_xablabel == <<"x", "-", "a", "b", "l", "a", "b", "e", "l">>
N_XADDR   == <<"X", "-", "A", "D", "D", "R", "E", "S", "S", "B", "O", "O", "K", "S", "E",
               "R", "V", "E", "R", "-", "K", "I", "N", "D">>
N_item1   == <<"i", "t", "e", "m", "1", ".", "U", "R", "L">>
N_ITEM12  == <<"I", "T", "E", "M", "1", "2", ".", "T", "E", "L">>
N_XGOOGLE == <<"X", "-", "G", "O", "O", "G", "L", "E", "-", "E", "T", "A", "G">>
N_XCUSTOM == <<"X", "-", "C", "U", "S", "T", "O", "M">>
N_xcustom == <<"x", "-", "c", "u", "s", "t", "o", "m">>
N_EMAIL   == <<"E", "M", "A", "I", "L">>
N_XML     == <<"X", "M", "L">>
N_itemTEL == <<"i", "t", "e", "m", ".", "T", "E", "L">>

PropNames == {N_XABUID, N_xablabel, N_XADDR, N_item1, N_ITEM12, N_XGOOGLE, N_XCUSTOM,
              N_xcustom, N_EMAIL, N_XML, N_itemTEL}

InitStrip ==
  /\ mode = "strip"
  /\ dry_run = FALSE
  /\ pc = "normalized"
  /\ \E props \in Seqs(PropNames, MaxProps) :
       cards = <<[Card("", "Alice", <<"a@x.com">>, <<>>, "", "", <<>>, "icloud")
                    EXCEPT !.raw = props]>>
  /\ cards0 = cards
  /\ clusters = <<>>
  /\ compared = {}
  /\ merged = <<>>
  /\ decisions = <<>>
  /\ idx = 0
  /\ queue = <<>>
  /\ edits = 0
  /\ answer = ""
  /\ outcome = NoOutcome
  /\ score = -1
  /\ srv = NoServer
  /\ keep_unknown \in BOOLEAN
  /\ flagged_delete = {}
  /\ text = <<>>
  /\ disk = NoDisk

\* cards = [stripper.strip(c) for c in cards]
Strip ==
  /\ mode = "strip" /\ pc = "normalized"
  /\ cards' = [i \in DOMAIN cards |-> strip(cards[i], keep_unknown)]
  /\ pc' = "stripped"
  /\ UNCHANGED <<flagged_delete, keep_unknown, text, disk, srv, mode, dry_run, cards0, clusters,
                 compared, merged, decisions, idx, queue, edits, answer, outcome,
                 score>>

NextStrip == Strip

SpecStrip == InitStrip /\ [][NextStrip]_vars

----------------------------------------------------------------------------
(* io.py: _sanitise_vcf.  The data is a sequence of lines (splitlines) and *)
(* a line is a sequence of characters.                                     *)

MaxLines == 2

CharAt(line, k) == IF k <= Len(line) THEN line[k] ELSE ""

\* [A-Z] under re.IGNORECASE, for the letters of this universe.
IsLetter(ch) == Upper(ch) \in {UpperCase[k] : k \in 1..Len(UpperCase)}

\* The position of the dot that ends a match of ^item\d+\. , or 0.
ItemDot(line) ==
  IF /\ StartsWith(line, <<"I", "T", "E", "M">>)
     /\ \E k \in 5..Len(line) - 1 :
          (\A d \in 5..k : line[d] \in Digits) /\ line[k + 1] = "."
  THEN 1 + CHOOSE k \in 5..Len(line) - 1 :
             (\A d \in 5..k : line[d] \in Digits) /\ line[k + 1] = "."
  ELSE 0

\* "X-" at position k, in any case.
ExtensionAt(line, k) == Upper(CharAt(line, k)) = "X" /\ CharAt(line, k + 1) = "-"

\* The body of the loop of _sanitise_vcf: the lines (none or one) that one
\* line contributes to `out`.
sanitise_line(line) ==
  LET p == ItemDot(line)
  IN IF (p > 0 /\ ExtensionAt(line, p + 1))
        \/ (CharAt(line, 1) = "." /\ ExtensionAt(line, 2)) THEN <<>>
     ELSE IF p > 0 /\ CharAt(line, p + 1) = "."
       THEN <<SubSeq(line, p + 2, Len(line))>>
     ELSE IF p > 0 /\ IsLetter(CharAt(line, p + 1))
       THEN <<SubSeq(line, p + 1, Len(line))>>
     ELSE IF CharAt(line, 1) = "." /\ IsLetter(CharAt(line, 2))
       THEN <<Tail(line)>>
     ELSE <<line>>

RECURSIVE sanitise_vcf(_)
sanitise_vcf(lines) ==
  IF lines = <<>> THEN <<>>
  ELSE sanitise_line(Head(lines)) \o sanitise_vcf(Tail(lines))

L_item_x       == <<"i", "t", "e", "m", "1", ".", "X", "-", "A", ":", "1">>
L_ITEM_x       == <<"I", "T", "E", "M", "1", "2", ".", "x", "-", "a", ":", "1">>
L_dot_x        == <<".", "X", "-", "A", ":", "1">>
L_item_dd      == <<"i", "t", "e", "m", "1", ".", ".", "T", "E", "L", ":", "1">>
L_item_std     == <<"i", "t", "e", "m", "1", ".", "T", "E", "L", ":", "1">>
L_dot_std      == <<".", "T", "E", "L", ":", "1">>
L_std          == <<"T", "E", "L", ":", "1">>
L_x            == <<"X", "-", "A", ":", "1">>
L_cont         == <<" ", "i", "t", "e", "m", "1", ".", "X", "-", "A">>
L_item_nodigit == <<"i", "t", "e", "m", ".", "T", "E", "L", ":", "1">>
L_item_dd_x    == <<"i", "t", "e", "m", "1", ".", ".", "X", "-", "A", ":", "1">>
L_item_xml     == <<"i", "t", "e", "m", "1", ".", "X", "M", "L", ":", "1">>
L_xml          == <<"X", "M", "L", ":", "1">>

InputLines == {L_item_x, L_ITEM_x, L_dot_x, L_item_dd, L_item_std, L_dot_std, L_std,
               L_x, L_cont, L_item_nodigit, L_item_dd_x, L_item_xml}

InitSanitise ==
  /\ mode = "read"
  /\ dry_run = FALSE
  /\ pc = "raw"
  /\ cards = <<>>
  /\ cards0 = <<>>
  /\ clusters = <<>>
  /\ compared = {}
  /\ merged = <<>>
  /\ decisions = <<>>
  /\ idx = 0
  /\ queue = <<>>
  /\ edits = 0
  /\ answer = ""
  /\ outcome = NoOutcome
  /\ score = -1
  /\ srv = NoServer
  /\ keep_unknown = FALSE
  /\ flagged_delete = {}
  /\ text = <<>>
  /\ \E lines \in Seqs(InputLines, MaxLines) :
       disk = [NoDisk EXCEPT !.input = lines]

\* data = _sanitise_vcf(raw, label)
Sanitise ==
  /\ mode = "read" /\ pc = "raw"
  /\ text' = sanitise_vcf(disk.input)
  /\ pc' = "sanitised"
  /\ UNCHANGED <<flagged_delete, keep_unknown, disk, srv, mode, dry_run, cards, cards0, clusters,
                 compared, merged, decisions, idx, queue, edits, answer, outcome,
                 score>>

NextSanitise == Sanitise

SpecSanitise == InitSanitise /\ [][NextSanitise]_vars

----------------------------------------------------------------------------
(* find_duplicate_clusters called twice on one list (dedupe.py 16-32).     *)
(* `visited` and `clusters` are locals created by each call; the call      *)
(* reads the cards through similarity and assigns to none of them.         *)

Members(cls) == UNION {Range(cls[k]) : k \in 1..Len(cls)}

\* A `visited` set that outlives the call and still holds the earlier members.
SharedVisitedMutant(earlier) == earlier

\* `visited: set[int] = set()`: empty at entry whatever earlier calls visited.
visited_at_entry(earlier) == {}

InitCluster ==
  /\ mode = "cluster"
  /\ dry_run = FALSE
  /\ pc = "fresh"
  /\ cards \in Seqs(PipePool, MaxCards)
  /\ cards0 = cards
  /\ clusters = <<>>
  /\ compared = {}
  /\ merged = <<>>
  /\ decisions = <<>>
  /\ idx = 0
  /\ queue = <<>>
  /\ edits = 0
  /\ answer = ""
  /\ outcome = NoOutcome
  /\ score = -1
  /\ srv = NoServer
  /\ keep_unknown = FALSE
  /\ flagged_delete = {}
  /\ text = <<>>
  /\ disk = NoDisk

ClusterCall(now, then) ==
  /\ mode = "cluster"
  /\ pc = now
  /\ LET r == ScanSeeds(cards, 1, [visited  |-> visited_at_entry(Members(clusters)),
                                   clusters |-> <<>>,
                                   compared |-> {}])
     IN clusters' = r.clusters /\ compared' = r.compared
  /\ pc' = then
  /\ UNCHANGED <<flagged_delete, keep_unknown, text, disk, srv, mode, dry_run, cards, cards0, merged, decisions, idx,
                 queue, edits, answer, outcome, score>>

ClusterFirst == ClusterCall("fresh", "clustered")

ClusterAgain == ClusterCall("clustered", "reclustered")

NextCluster ==
  \/ ClusterFirst
  \/ ClusterAgain

SpecCluster == InitCluster /\ [][NextCluster]_vars

----------------------------------------------------------------------------
(* checkpoint.py called directly: save, load and clear in any order.       *)

\* Contacts that carry typed_emails and typed_tels, one of them with the
\* email field waived (server.py _api_waive_field).
WaivedAlice == [AliceWork EXCEPT !.typed = TRUE, !.waived = {"email"}]
TypedBob    == [BobLandline EXCEPT !.typed = TRUE]

CheckpointPool == PipePool \cup {WaivedAlice, TypedBob}

InitCheckpoint ==
  /\ mode = "checkpoint"
  /\ dry_run = FALSE
  /\ pc = "fresh"
  /\ cards \in Seqs(CheckpointPool, MaxCards)
  /\ cards0 = cards
  /\ clusters = <<>>
  /\ compared = {}
  /\ merged = <<>>
  /\ decisions = <<>>
  /\ idx = 0
  /\ queue = <<>>
  /\ edits = 0
  /\ answer = ""
  /\ outcome = NoOutcome
  /\ score = -1
  /\ srv = NoServer
  /\ keep_unknown = FALSE
  /\ flagged_delete = {}
  /\ text = <<>>
  /\ disk = NoDisk

CheckpointFrame ==
  UNCHANGED <<flagged_delete, keep_unknown, text, srv, mode, dry_run, cards, cards0, clusters, compared, merged,
              decisions, idx, queue, edits, answer, score>>

SaveCheckpoint ==
  /\ mode = "checkpoint"
  /\ \E review_index \in 0..Len(cards) :
       disk' = [disk EXCEPT !.checkpoint =
                  save_checkpoint(cards, All(cards), review_index, Len(cards),
                                  <<"icloud", "proton">>)]
  /\ pc' = "saved"
  /\ outcome' = NoOutcome
  /\ CheckpointFrame

LoadCheckpoint ==
  /\ mode = "checkpoint"
  /\ outcome' = load_checkpoint(disk.checkpoint)
  /\ pc' = "loaded"
  /\ UNCHANGED disk
  /\ CheckpointFrame

ClearCheckpoint ==
  /\ mode = "checkpoint"
  /\ disk' = [disk EXCEPT !.checkpoint = NoCheckpoint]
  /\ pc' = "cleared"
  /\ outcome' = NoOutcome
  /\ CheckpointFrame

NextCheckpoint ==
  \/ SaveCheckpoint
  \/ LoadCheckpoint
  \/ ClearCheckpoint

SpecCheckpoint == InitCheckpoint /\ [][NextCheckpoint]_vars

----------------------------------------------------------------------------
(* server.py _api_export: POST /api/export on the loaded contact set.      *)
(* disk.out is the file in cards-out/ as the list of contacts written.     *)

\* A file name that is built for every request.
NamedForAnyFilterMutant(categories_filter, category_filter) == FALSE

\* Whether building the file name raises: with either filter set the name
\* is computed with re.sub, and server.py binds no `re` at module level or
\* in _api_export, so the NameError lands in `except Exception`.
name_raises(categories_filter, category_filter) ==
  categories_filter # <<>> \/ category_filter # ""

\* export_cards: the multi-select filter first, then the single category.
export_selection(h, list, categories_filter, category_filter) ==
  IF categories_filter # <<>>
    THEN SelectSeq(list, LAMBDA m :
           \E cat \in Range(categories_filter) : cat \in Range(h[m].categories))
  ELSE IF category_filter # ""
    THEN SelectSeq(list, LAMBDA m : category_filter \in Range(h[m].categories))
  ELSE list

WebExportPool ==
  {[Card("", f, <<"a@x.com">>, <<>>, "", "", cats, "icloud") EXCEPT !.typed = t] :
     f \in {"Alice", "Bob"},
     cats \in {<<>>, <<"Work">>, <<"Family">>},
     t \in BOOLEAN}

\* The state a run leaves: the contacts in _state["cards"], the checkpoint
\* that run saved.
InitWebExport ==
  /\ mode = "web_export"
  /\ dry_run = FALSE
  /\ pc = "loaded"
  /\ cards \in Seqs(WebExportPool, MaxCards)
  /\ cards0 = cards
  /\ clusters = <<>>
  /\ compared = {}
  /\ merged = <<>>
  /\ decisions = <<>>
  /\ idx = 0
  /\ queue = <<>>
  /\ edits = 0
  /\ answer = ""
  /\ outcome = [kind |-> "state", cards |-> All(cards), written |-> <<>>, skipped |-> 0]
  /\ score = -1
  /\ srv = NoServer
  /\ keep_unknown = FALSE
  /\ flagged_delete = {}
  /\ text = <<>>
  /\ disk = [NoDisk EXCEPT !.checkpoint =
               save_checkpoint(cards, All(cards), 0, Len(cards), source_labels(cards))]

WebExport ==
  /\ mode = "web_export"
  /\ outcome.cards # <<>>
  /\ \E categories_filter \in {<<>>, <<"Work">>}, category_filter \in {"", "Family"} :
       LET export_cards == export_selection(cards, outcome.cards,
                                            categories_filter, category_filter)
           saved == autosave_checkpoint(disk, cards, outcome.cards, cards0)
           written == export_vcards(cards, export_cards).written
       IN IF name_raises(categories_filter, category_filter)
            THEN pc' = "export_error" /\ UNCHANGED disk
          ELSE IF written = <<>>
            THEN /\ pc' = "export_error"
                 /\ disk' = [saved EXCEPT !.out = [exists |-> TRUE, written |-> <<>>]]
          ELSE IF Len(written) # Len(export_cards)
            THEN /\ pc' = "export_warning"
                 /\ disk' = [saved EXCEPT !.out = [exists |-> TRUE, written |-> written]]
          ELSE /\ pc' = "export_ok"
               /\ disk' = [saved EXCEPT !.out = [exists |-> TRUE, written |-> written],
                                        !.checkpoint = NoCheckpoint]
  /\ UNCHANGED <<flagged_delete, keep_unknown, text, srv, mode, dry_run, cards, cards0, clusters, compared, merged,
                 decisions, idx, queue, edits, answer, outcome, score>>

NextWebExport == WebExport

SpecWebExport == InitWebExport /\ [][NextWebExport]_vars

----------------------------------------------------------------------------
(* server.py: a session of /api/link_related and /api/unlink_related       *)
(* requests on a loaded set of distinct contacts, with and without uid.    *)

LinkPool ==
  {Card("", "Alice", <<"a@x.com">>, <<>>, "", "", <<>>, "icloud"),
   Card("u1", "Alice Smith", <<>>, <<>>, "", "", <<>>, "icloud"),
   Card("u2", "Bob", <<>>, <<>>, "", "", <<>>, "proton")}

InitLinks ==
  /\ mode = "web_links"
  /\ dry_run = FALSE
  /\ pc = "done"
  /\ cards \in {h \in Seqs(LinkPool, MaxCards) :
                  Len(h) >= 2 /\ \A i, j \in 1..Len(h) : h[i] = h[j] => i = j}
  /\ cards0 = cards
  /\ clusters = <<>>
  /\ compared = {}
  /\ merged = <<>>
  /\ decisions = <<>>
  /\ idx = 0
  /\ queue = <<>>
  /\ edits = 0
  /\ answer = ""
  /\ outcome = [kind |-> "state", cards |-> All(cards), written |-> <<>>, skipped |-> 0]
  /\ score = -1
  /\ srv = NoServer
  /\ keep_unknown = FALSE
  /\ flagged_delete = {}
  /\ text = <<>>
  /\ disk = [NoDisk EXCEPT !.checkpoint =
               save_checkpoint(cards, All(cards), 0, Len(cards), source_labels(cards))]

NextLinks ==
  \/ WebLink
  \/ WebUnlink

SpecLinks == InitLinks /\ [][NextLinks]_vars

----------------------------------------------------------------------------
(* server.py: POST /api/merge_cards with any `indices` on a loaded set.    *)

InitWebMerge ==
  /\ mode = "web_merge"
  /\ dry_run = FALSE
  /\ pc = "done"
  /\ cards \in Seqs({AliceWork, AliceSmithHome, BobLandline}, MaxCards)
  /\ cards0 = cards
  /\ clusters = <<>>
  /\ compared = {}
  /\ merged = <<>>
  /\ decisions = <<>>
  /\ idx = 0
  /\ queue = <<>>
  /\ edits = 0
  /\ answer = ""
  /\ outcome = [kind |-> "state", cards |-> All(cards), written |-> <<>>, skipped |-> 0]
  /\ score = -1
  /\ srv = NoServer
  /\ keep_unknown = FALSE
  /\ flagged_delete = {}
  /\ text = <<>>
  /\ disk = [NoDisk EXCEPT !.checkpoint =
               save_checkpoint(cards, All(cards), 0, Len(cards), source_labels(cards))]

NextWebMerge == WebMerge

SpecWebMerge == InitWebMerge /\ [][NextWebMerge]_vars

----------------------------------------------------------------------------
(* review.py: review_cards, the card-by-card review loop.  `queue` is the  *)
(* sorted list the loop walks (heap indices), idx its position i and       *)
(* flagged_delete the flagged positions, both counted from 1.              *)

\* autoclean_cards: phones, then kinds (no contact here has an address).
autoclean_cards(h) == [i \in DOMAIN h |-> classify(normalize_phones(h[i]))]

\* Python's order on the lower-cased sort keys in use.
ReviewKeyOrder == <<"acme", "alice", "bob", "zzz">>

\* key=lambda c: (c.fn or c.org or "zzz").lower()
review_key(c) ==
  LET s == IF c.fn # "" THEN c.fn ELSE IF c.org # "" THEN c.org ELSE "zzz"
  IN CASE s = "Alice" -> "alice"
       [] s = "Bob" -> "bob"
       [] s = "Acme" -> "acme"
       [] OTHER -> s

RECURSIVE InsertByReviewKey(_, _, _)
InsertByReviewKey(h, sorted, m) ==
  IF sorted = <<>> THEN <<m>>
  ELSE IF Rank(review_key(h[sorted[Len(sorted)]]), ReviewKeyOrder)
            <= Rank(review_key(h[m]), ReviewKeyOrder)
    THEN Append(sorted, m)
    ELSE Append(InsertByReviewKey(h, SubSeq(sorted, 1, Len(sorted) - 1), m),
                sorted[Len(sorted)])

\* A review that walks the list in the order it was given.
UnsortedReviewMutant(h, i) == [k \in 1..i |-> k]

\* cards = sorted(cards, key=...) on the first i cards: stable.
RECURSIVE sorted_for_review(_, _)
sorted_for_review(h, i) ==
  IF i = 0 THEN <<>>
  ELSE InsertByReviewKey(h, sorted_for_review(h, i - 1), i)

\* _prompt_missing: a missing title and missing categories are asked for; a
\* blank answer leaves the field alone.
prompt_missing(c, title_in, cats_in) ==
  LET c1 == IF c.title = "" /\ title_in # "" THEN [c EXCEPT !.title = title_in]
            ELSE c
  IN IF c.categories = <<>> /\ cats_in # <<>>
       THEN [c1 EXCEPT !.categories = Sorted(Range(cats_in), CategoryOrder)]
       ELSE c1

\* _edit_card with every answer blank but the full name: the other fields
\* are written back as they are.
edit_card(c, fn_in) == IF fn_in = "" THEN c ELSE [c EXCEPT !.fn = fn_in]

\* kept = [c for j, c in enumerate(cards) if j not in flagged_delete]
RECURSIVE kept_from(_, _, _)
kept_from(list, flagged, j) ==
  IF j > Len(list) THEN <<>>
  ELSE (IF j \in flagged THEN <<>> ELSE <<list[j]>>) \o kept_from(list, flagged, j + 1)

\* The longest list handed to review_cards.
MaxReview == 2

ReviewPool ==
  {Card("", "Bob", <<"b@x.com">>, <<>>, "", "", <<>>, "icloud"),
   Card("", "Alice", <<"a@x.com">>, <<P_local>>, "", "Dr", <<"Work">>, "icloud"),
   Card("", "", <<>>, <<>>, "Acme", "", <<>>, "icloud"),
   Card("", "", <<"a@x.com">>, <<>>, "", "", <<>>, "icloud")}

InitReview ==
  /\ mode = "review"
  /\ dry_run = FALSE
  /\ pc = "review_start"
  /\ cards \in Seqs(ReviewPool, MaxReview)
  /\ cards0 = cards
  /\ clusters = <<>>
  /\ compared = {}
  /\ merged = <<>>
  /\ decisions = <<>>
  /\ idx = 0
  /\ queue = <<>>
  /\ edits = 0
  /\ answer = ""
  /\ outcome = NoOutcome
  /\ score = -1
  /\ srv = NoServer
  /\ keep_unknown = FALSE
  /\ flagged_delete = {}
  /\ text = <<>>
  /\ disk = NoDisk

ReviewFrame ==
  UNCHANGED <<mode, dry_run, cards0, clusters, compared, merged, decisions,
              score, srv, keep_unknown, text, disk>>

\* The auto-clean pass and the sort, up to the first prompt.
ReviewCardsStart ==
  /\ mode = "review" /\ pc = "review_start"
  /\ \E autoclean \in BOOLEAN :
       cards' = IF autoclean THEN autoclean_cards(cards) ELSE cards
  /\ queue' = sorted_for_review(cards', Len(cards))
  /\ flagged_delete' = {}
  /\ idx' = 1
  /\ pc' = "review_loop"
  /\ UNCHANGED <<edits, answer, outcome>>
  /\ ReviewFrame

Reviewing == mode = "review" /\ pc = "review_loop" /\ idx <= Len(queue)

\* One pass of the loop body up to the action prompt: the card is shown
\* and, unless it is flagged, its missing fields are asked for; then the
\* answer is handled by the action that uses this; fn_in is what 'e' gives
\* to _edit_card.
ReviewPass(fn_in) ==
  /\ Reviewing
  /\ \E title_in \in {"", "Dr"}, cats_in \in {<<>>, <<"Work">>} :
       LET c == cards[queue[idx]]
           shown == IF idx \in flagged_delete THEN c
                    ELSE prompt_missing(c, title_in, cats_in)
           done == edit_card(shown, fn_in)
       IN /\ done # c => edits < MaxEdits
          /\ cards' = [cards EXCEPT ![queue[idx]] = done]
          /\ edits' = IF done # c THEN edits + 1 ELSE edits
  /\ UNCHANGED <<queue, answer>>
  /\ ReviewFrame

\* 'y', Enter or 'accept': i += 1
ReviewAccept ==
  /\ ReviewPass("")
  /\ idx' = idx + 1
  /\ UNCHANGED <<flagged_delete, pc, outcome>>

\* 'e': _edit_card(card), staying on the card.
ReviewEdit ==
  /\ \E fn_in \in {"", "Zed"} : ReviewPass(fn_in)
  /\ UNCHANGED <<idx, flagged_delete, pc, outcome>>

\* 'd': the flag of the card is toggled, then i += 1.
ReviewFlag ==
  /\ ReviewPass("")
  /\ flagged_delete' = IF idx \in flagged_delete
                         THEN flagged_delete \ {idx}
                         ELSE flagged_delete \cup {idx}
  /\ idx' = idx + 1
  /\ UNCHANGED <<pc, outcome>>

\* 'b': i = max(0, i - 1)
ReviewBack ==
  /\ ReviewPass("")
  /\ idx' = IF idx > 1 THEN idx - 1 ELSE 1
  /\ UNCHANGED <<flagged_delete, pc, outcome>>

\* Any other text: a message, and the same card is shown again.
ReviewUnknown ==
  /\ ReviewPass("")
  /\ UNCHANGED <<idx, flagged_delete, pc, outcome>>

\* 'q' or 'quit': break, and the list without the flagged cards is returned.
ReviewQuit ==
  /\ ReviewPass("")
  /\ pc' = "reviewed"
  /\ outcome' = [NoOutcome EXCEPT !.kind = "reviewed",
                                  !.cards = kept_from(queue, flagged_delete, 1)]
  /\ UNCHANGED <<idx, flagged_delete>>

\* `while i < total` ends: the list without the flagged cards is returned.
ReviewEnd ==
  /\ mode = "review" /\ pc = "review_loop" /\ idx > Len(queue)
  /\ pc' = "reviewed"
  /\ outcome' = [NoOutcome EXCEPT !.kind = "reviewed",
                                  !.cards = kept_from(queue, flagged_delete, 1)]
  /\ UNCHANGED <<cards, queue, idx, edits, answer, flagged_delete>>
  /\ ReviewFrame

NextReview ==
  \/ ReviewCardsStart
  \/ ReviewAccept
  \/ ReviewEdit
  \/ ReviewFlag
  \/ ReviewBack
  \/ ReviewUnknown
  \/ ReviewQuit
  \/ ReviewEnd

SpecReview == InitReview /\ [][NextReview]_vars

----------------------------------------------------------------------------
(* Properties of the scorer (checked under SpecSim).                       *)

SameUid(a, b) == a.uid # "" /\ b.uid # "" /\ a.uid = b.uid

\* C1: two contacts that both carry a non-empty uid and whose uids are equal
\* score exactly 100, whatever their emails, phones, names and organisations.
C1_UidShortCircuit ==
  (pc = "scored" /\ SameUid(cards[1], cards[2])) => score = 10000

\* C1 witness: equal uids on contacts that share no email, no phone and no
\* organisation, one of them without a display name.
C1_Witness ==
  /\ pc = "scored"
  /\ SameUid(cards[1], cards[2])
  /\ cards[1].fn = ""
  /\ Range(cards[1].emails) \cap Range(cards[2].emails) = {}
  /\ cards[1].tels = <<>>
  /\ cards[1].org = ""
  /\ score = 10000

EmailsIntersect(a, b) == \E e \in Range(a.emails) : e \in Range(b.emails)

PhoneKeysIntersect(a, b) ==
  \E t \in Range(a.tels), u \in Range(b.tels) : tel_key(t) = tel_key(u)

SameOrgIgnoringCase(a, b) ==
  a.org # "" /\ b.org # "" /\ lower(a.org) = lower(b.org)

HeuristicTotal(a, b) ==
  (IF EmailsIntersect(a, b) THEN 6000 ELSE 0)
  + (IF PhoneKeysIntersect(a, b) THEN 4000 ELSE 0)
  + (IF a.fn # "" /\ b.fn # "" THEN 4 * token_sort_ratio(a.fn, b.fn) ELSE 0)
  + (IF SameOrgIgnoringCase(a, b) THEN 1000 ELSE 0)

\* C2: without an equal non-empty uid the score is min(100, 60 for a shared
\* email + 40 for a shared phone key + 0.4 x name ratio when both are named
\* + 10 for the same organisation ignoring case), and every score is in
\* [0, 100].
C2_ScoreFormula ==
  pc = "scored" =>
    /\ 0 <= score /\ score <= 10000
    /\ ~SameUid(cards[1], cards[2]) =>
         score = Min(10000, HeuristicTotal(cards[1], cards[2]))

\* C2 witness: the cap is what decides the score (the terms add up to more
\* than 100) for two contacts without a common uid.
C2_Witness ==
  /\ pc = "scored"
  /\ ~SameUid(cards[1], cards[2])
  /\ HeuristicTotal(cards[1], cards[2]) > 10000
  /\ cards[1].org = "Acme" /\ cards[2].org = "ACME"
  /\ score = 10000

\* The i-th digit character of t sits at the position with i digits up to it.
DigitCount(t, n) == Cardinality({x \in 1..n : t[x] \in Digits})

DigitAt(t, i) ==
  t[CHOOSE p \in 1..Len(t) : t[p] \in Digits /\ DigitCount(t, p) = i]

IsLastNineDigits(t, k) ==
  LET d == DigitCount(t, Len(t))
  IN /\ Len(k) = Min(9, d)
     /\ \A j \in 1..Len(k) : k[j] = DigitAt(t, d - Len(k) + j)

\* C3: the comparison key of a number is the last 9 digits of its digit
\* string; the local and the internationally prefixed form of one number
\* have equal keys, and two contacts holding them score at least 40.
C3_PhoneKey ==
  /\ \A i \in 1..Len(cards) : \A t \in Range(cards[i].tels) :
       IsLastNineDigits(t, tel_key(t))
  /\ tel_key(P_local) = tel_key(P_intl)
  /\ (pc = "scored" /\ P_local \in Range(cards[1].tels)
        /\ P_intl \in Range(cards[2].tels)) => score >= 4000

\* C3 witness: the two forms are all the two contacts have in common, and
\* the score is the 40 of the phone match.
C3_Witness ==
  /\ pc = "scored"
  /\ cards[1].tels = <<P_local>> /\ cards[2].tels = <<P_intl>>
  /\ ~SameUid(cards[1], cards[2])
  /\ ~EmailsIntersect(cards[1], cards[2])
  /\ cards[1].fn = "" /\ cards[1].org = ""
  /\ score = 4000

----------------------------------------------------------------------------
(* Properties of clustering (checked under Spec).                          *)

Duplicate0(i, j) == similarity(cards0[i], cards0[j]) >= 7000

\* j sits in a cluster whose seed comes before contact i.
PlacedEarlier(j, i) ==
  \E k \in 1..Len(clusters) : clusters[k][1] < i /\ j \in Range(clusters[k])

Increasing(s) == \A x, y \in 1..Len(s) : x < y => s[x] < s[y]

\* C4: contacts are visited in input order; j joins the cluster seeded by an
\* earlier contact i exactly when j was not placed in an earlier cluster and
\* similarity(i, j) >= 70; only seeds are compared against (no transitive
\* closure), and a contact placed by an earlier scan is never compared again.
C4_SeedOnlyClustering ==
  pc # "start" =>
    /\ Increasing([k \in 1..Len(clusters) |-> clusters[k][1]])
    /\ \A k \in 1..Len(clusters) :
         /\ Increasing(clusters[k])
         /\ \A j \in 1..Len(cards0) :
              j # clusters[k][1] =>
                (j \in Range(clusters[k]) <=>
                   /\ clusters[k][1] < j
                   /\ ~PlacedEarlier(j, clusters[k][1])
                   /\ Duplicate0(clusters[k][1], j))
    /\ \A p \in compared :
         /\ \E k \in 1..Len(clusters) : clusters[k][1] = p[1]
         /\ p[1] < p[2]
         /\ ~PlacedEarlier(p[2], p[1])

\* C4 witness: a contact is a duplicate of a non-seed member of a cluster,
\* not of its seed, and ends up outside that cluster.
C4_Witness ==
  /\ pc # "start"
  /\ \E k \in 1..Len(clusters) : \E m \in Range(clusters[k]) :
       \E j \in 1..Len(cards0) :
         /\ m # clusters[k][1]
         /\ j > m
         /\ Duplicate0(m, j)
         /\ ~Duplicate0(clusters[k][1], j)
         /\ j \notin Range(clusters[k])

----------------------------------------------------------------------------
(* Properties of merge_cluster_auto (checked under SpecMerge).             *)

Values0(cluster, field) ==
  UNION {Range(cards0[cluster[i]][field]) : i \in 1..Len(cluster)}

\* C5: the merged contact's emails, phones and categories are exactly the
\* union of the members' emails, phones and categories.
C5_LosslessUnion ==
  (mode = "merge" /\ Len(merged) = 1) =>
    /\ Range(cards[merged[1]].emails) = Values0(clusters[1], "emails")
    /\ Range(cards[merged[1]].tels) = Values0(clusters[1], "tels")
    /\ Range(cards[merged[1]].categories) = Values0(clusters[1], "categories")

\* C5 witness: the base lacks an email and a category that other members
\* hold, and the cluster has a phone.
C5_Witness ==
  /\ mode = "merge" /\ Len(merged) = 1
  /\ Range(cards0[merged[1]].emails) # Values0(clusters[1], "emails")
  /\ Range(cards0[merged[1]].categories) # Values0(clusters[1], "categories")
  /\ cards0[merged[1]].categories # <<>>
  /\ Values0(clusters[1], "tels") # {}

Count0(m) == Len(cards0[m].emails) + Len(cards0[m].tels)

\* C10: the result of merge_cluster_auto is one of the cluster's members,
\* one with the largest (emails + phones) count before the union and, among
\* those, with the longest display name.
C10_RichestBase ==
  (mode = "merge" /\ Len(merged) = 1) =>
    /\ merged[1] \in Range(clusters[1])
    /\ \A m \in Range(clusters[1]) :
         \/ Count0(m) < Count0(merged[1])
         \/ /\ Count0(m) = Count0(merged[1])
            /\ Len(cards0[m].fn) <= Len(cards0[merged[1]].fn)

\* C10 witness: the first member ties with the base on the count and loses
\* on the length of the display name.
C10_Witness ==
  /\ mode = "merge" /\ Len(merged) = 1
  /\ merged[1] # clusters[1][1]
  /\ Count0(clusters[1][1]) = Count0(merged[1])
  /\ Count0(merged[1]) > 0
  /\ Len(cards0[clusters[1][1]].fn) < Len(cards0[merged[1]].fn)

\* The card merge_cluster_auto returned, and the entries it appended.
Result == cards[merged[1]]

Appended == SubSeq(Result.changes, Len(cards0[merged[1]].changes) + 1,
                   Len(Result.changes))

Categories0(m) == Range(cards0[m].categories)

Disagree(cluster) ==
  \E x, y \in Range(cluster) :
    /\ Categories0(x) # {} /\ Categories0(y) # {}
    /\ Categories0(x) # Categories0(y)

ConflictFlagged ==
  \E i \in 1..Len(Appended) :
    Appended[i].tag = "Categories merged (conflict resolved by union)"

\* C11: when two members have different non-empty category sets the result
\* holds the union and a conflict-flagged audit entry is appended; when the
\* members that have categories agree, no conflict-flagged entry is appended.
C11_ConflictFlagged ==
  (mode = "merge" /\ Len(merged) = 1) =>
    /\ Disagree(clusters[1]) =>
         /\ Range(Result.categories) = Values0(clusters[1], "categories")
         /\ ConflictFlagged
    /\ ~Disagree(clusters[1]) => ~ConflictFlagged

MergeEntries ==
  SelectSeq(Appended, LAMBDA e : e.tag = "Auto-merged")

OtherNamed(cluster) ==
  {m \in Range(cluster) :
     cards0[m].fn # "" /\ cards0[m].fn # cards0[merged[1]].fn}

UnionOfSame == union(cards0, clusters[1])

\* C15: on the same cluster the 'union' decision and merge_cluster_auto pick
\* the same base and leave the same emails, phones, categories,
\* organization and title on it.
C15_UnionMatchesAuto ==
  (mode = "merge" /\ Len(merged) = 1) =>
    /\ merged[1] = richest(cards0, clusters[1])
    /\ Result.emails = UnionOfSame.emails
    /\ Result.tels = UnionOfSame.tels
    /\ Result.categories = UnionOfSame.categories
    /\ Result.org = UnionOfSame.org
    /\ Result.title = UnionOfSame.title

\* C15 witness: the base gained an organization, a title, a category and an
\* email or phone from the other members.
C15_Witness ==
  /\ mode = "merge" /\ Len(merged) = 1
  /\ cards0[merged[1]].org = "" /\ Result.org # ""
  /\ cards0[merged[1]].title = "" /\ Result.title # ""
  /\ cards0[merged[1]].categories # <<>>
  /\ Len(Result.categories) > Len(cards0[merged[1]].categories)
  /\ Len(Result.emails) + Len(Result.tels) >
       Len(cards0[merged[1]].emails) + Len(cards0[merged[1]].tels)

----------------------------------------------------------------------------
(* Properties of the run paths (checked under Spec).                       *)

Labels(c) == Range(c.source_files)

MergeStageOver ==
  \/ Cli /\ pc \in {"categories", "uncategorised", "reviewing", "export"}
  \/ mode \in {"launcher", "web"} /\ pc = "done"

\* C6: after a merge (automatic, interactive union, keep N) the survivor's
\* provenance holds every source label of every member of its cluster, and
\* no contact ever loses a source label.
C6_ProvenanceGrows ==
  /\ \A i \in 1..Len(cards) : Labels(cards0[i]) \subseteq Labels(cards[i])
  /\ MergeStageOver =>
       \A k \in 1..Len(clusters) :
         decisions[k] \in {"auto", "autounion", "union", "keep"} =>
           \A m \in Range(clusters[k]) :
             Labels(cards0[m]) \subseteq Labels(cards[merged[k]])

AfterAbort ==
  Range(merged) \cup UNION {Range(clusters[k]) : k \in idx..Len(clusters)}

\* C8: when the user aborts the interactive merge, the run still ends with
\* a contact set: the survivors of the clusters resolved so far and every
\* contact of the aborted and later clusters.
C8_AbortKeepsProgress ==
  answer = "q" =>
    /\ outcome.kind # "crash"
    /\ outcome.kind # "none" => Range(outcome.cards) = AfterAbort

ValidSelection(cluster, ans) ==
  \/ ans \in {"u", "d", "q"}
  \/ ans = "1" /\ Len(cluster) >= 1
  \/ ans = "2" /\ Len(cluster) >= 2
  \/ ans = "3" /\ Len(cluster) >= 3

\* C9: an invalid selection at the duplicate-review prompt changes no
\* contact and leaves the same cluster to be asked about again.
C9_InvalidSelectionReprompts ==
  [][(Prompting /\ ~ValidSelection(Cluster, answer'))
       => (cards' = cards /\ merged' = merged /\ idx' = idx /\ pc' = pc)]_vars

\* Every pair of the cluster's contacts scored >= 95 when it was reviewed.
AllPairs95(cluster) ==
  \A x, y \in Range(cluster) :
    x < y => similarity(cards0[x], cards0[y]) >= 9500

\* C13: in an interactive merge a cluster is unioned without a prompt
\* exactly when all its pairs score >= 95; otherwise its contacts are
\* untouched until the user's decision resolves it.
C13_AutoUnionIffIdentical ==
  Interactive =>
    /\ \A k \in 1..Len(decisions) :
         Len(clusters[k]) > 1 =>
           /\ decisions[k] = "autounion" <=> AllPairs95(clusters[k])
           /\ decisions[k] # "autounion" => answer \in Answers
    /\ (pc \in {"merge", "crashed"} /\ idx <= Len(clusters)
          /\ Len(Cluster) > 1 /\ ~AllPairs95(Cluster)) =>
         \A m \in Range(Cluster) : cards[m] = cards0[m]

\* C13 witness: the two contacts shown with the score are identical, a
\* third one is not, and the user was asked.
C13_Witness ==
  /\ Interactive /\ Len(decisions) >= 1 /\ Len(clusters[1]) = 3
  /\ similarity(cards0[clusters[1][1]], cards0[clusters[1][2]]) >= 9500
  /\ ~AllPairs95(clusters[1])
  /\ decisions[1] = "union"

\* The single-valued data fields of a contact.
ScalarFields == {"fn", "org", "title", "bday", "anniversary", "uid", "kind", "note"}

Number(ans) == CASE ans = "1" -> 1 [] ans = "2" -> 2 [] ans = "3" -> 3 [] OTHER -> 0

\* The first non-empty value of a field among the members other than the
\* n-th, in cluster order, "" when there is none.
FirstOther(cluster, n, field) ==
  LET have == {i \in 1..Len(cluster) : i # n /\ cards[cluster[i]][field] # ""}
  IN IF have = {} THEN ""
     ELSE cards[cluster[CHOOSE i \in have : \A j \in have : i <= j]][field]

MembersUnion(cluster, field) ==
  UNION {Range(cards[m][field]) : m \in Range(cluster)}

\* C14: a 'keep N' decision leaves member N as the survivor with the union
\* of all members' emails, phones and categories; each scalar field set on
\* N is unchanged and each empty one takes the first non-empty value among
\* the other members in cluster order; the other members are untouched.
C14_KeepAdoptsMissing ==
  [][(Prompting /\ idx' = idx + 1 /\ Number(answer') \in 1..Len(Cluster))
       => LET n == Number(answer')
              b == Cluster[n]
          IN /\ merged' = Append(merged, b)
             /\ Range(cards'[b].emails) = MembersUnion(Cluster, "emails")
             /\ Range(cards'[b].tels) = MembersUnion(Cluster, "tels")
             /\ Range(cards'[b].categories) = MembersUnion(Cluster, "categories")
             /\ \A f \in ScalarFields :
                  cards'[b][f] = IF cards[b][f] # "" THEN cards[b][f]
                                 ELSE FirstOther(Cluster, n, f)
             /\ \A m \in 1..Len(cards) : m # b => cards'[m] = cards[m]]_vars

----------------------------------------------------------------------------
(* Properties of the exporter (checked under SpecExport).                  *)

Exported == pc = "done" /\ outcome.kind \in {"file", "folder"}

\* C16: an export always completes; every contact given is either written
\* (once) or counted as skipped, written + skipped is the number given, and
\* every contact that serialises is written whatever fails before it.
C16_ExportAccounting ==
  /\ (mode = "export" /\ pc = "done") => outcome.kind \in {"file", "folder"}
  /\ (mode = "export" /\ Exported) =>
       /\ Len(outcome.written) + outcome.skipped = Len(merged)
       /\ Cardinality(Range(outcome.written)) = Len(outcome.written)
       /\ Range(outcome.written) = {m \in Range(merged) : cards[m].typed}

\* C16 witness: a contact was skipped and one sorted after it was written.
C16_Witness ==
  /\ mode = "export" /\ Exported /\ outcome.kind = "file"
  /\ outcome.skipped >= 1
  /\ \E m \in Range(outcome.written) : \E f \in Range(merged) :
       /\ ~cards[f].typed
       /\ Rank(cards[f].fn, NameOrder) < Rank(cards[m].fn, NameOrder)

\* A contact as the constructor leaves it, with no attribute added to it.
Plain(c) == ~c.typed

\* C17: exporting contacts created with only a name, emails, phones and
\* categories writes every one: the count returned is the number given and
\* each contact is in the file.
C17_PlainContactsExported ==
  (mode = "export" /\ Exported /\ outcome.kind = "file"
     /\ \A m \in Range(merged) : Plain(cards[m]) /\ cards[m].family = "") =>
    /\ Len(merged) - outcome.skipped = Len(merged)
    /\ Range(outcome.written) = Range(merged)

\* C18: the records of an exported file are in non-decreasing order of
\* (display name, structured name), a missing value counting as "".
C18_FileSorted ==
  (mode = "export" /\ Exported /\ outcome.kind = "file") =>
    \A i, j \in 1..Len(outcome.written) :
      i < j =>
        LET x == cards[outcome.written[i]]
            y == cards[outcome.written[j]]
        IN \/ Rank(x.fn, NameOrder) < Rank(y.fn, NameOrder)
           \/ /\ x.fn = y.fn
              /\ Rank(card_n(x), StructuredOrder) <= Rank(card_n(y), StructuredOrder)

\* C18 witness: two records with the same display name were given in the
\* opposite order and are ordered by their structured names.
C18_Witness ==
  /\ mode = "export" /\ Exported /\ outcome.kind = "file"
  /\ \E i, j \in 1..Len(outcome.written) :
       /\ i < j
       /\ outcome.written[i] > outcome.written[j]
       /\ cards[outcome.written[i]].fn = cards[outcome.written[j]].fn
       /\ card_n(cards[outcome.written[i]]) # card_n(cards[outcome.written[j]])

----------------------------------------------------------------------------
(* Properties of the web server (checked under SpecServer).                *)

InFlight == {t \in 1..Len(srv.runs) : Run(t).pc # "ended"}

\* C20: at most one background pipeline run is in flight at any time; a
\* process request arriving during a run starts no second run.
C20_SingleRunInFlight == Cardinality(InFlight) <= 1

\* C21: a run that finds no input file stops with an explicit nothing-to-do
\* outcome before reading anything; a run that finds at least one file is
\* never halted by a failure local to one file.
C21_OnlyNoFilesHalts ==
  \A t \in 1..Len(srv.runs) :
    /\ Run(t).files = <<>> /\ Run(t).pc = "ended" => Run(t).halted_by = "no files"
    /\ Run(t).files # <<>> => Run(t).halted_by # "file"

----------------------------------------------------------------------------
(* Properties of the audit log (checked under SpecAudit).                  *)

IsPrefix(s, t) == Len(s) <= Len(t) /\ SubSeq(t, 1, Len(s)) = s

Tags(c) == [x \in 1..Len(c.changes) |-> c.changes[x].tag]

\* C19: across the stages of a run and the web UI's operations, every
\* contact's audit log only grows: the log it held before a step is a prefix
\* of the log it holds after the step.
C19_AuditLogMonotonic ==
  [][/\ Len(cards') = Len(cards)
     /\ \A i \in 1..Len(cards) : IsPrefix(cards[i].changes, cards'[i].changes)]_vars

\* A contact whose log was written by canonicalization, by phone
\* normalisation, by the merge and by a web UI operation, in that order.
C19_Witness ==
  \E i \in 1..Len(cards) :
    /\ Len(Tags(cards[i])) >= 4
    /\ Tags(cards[i])[1] = Stripped.tag
    /\ Tags(cards[i])[2] = "Phone(s) reformatted"
    /\ "Auto-merged" \in Range(Tags(cards[i]))
    /\ Tags(cards[i])[Len(Tags(cards[i]))] \in {"Edited via web UI", "Linked",
                                                 "Manually merged"}

----------------------------------------------------------------------------
(* Properties of classification and auto-tagging (checked under            *)
(* SpecClassify).                                                          *)

\* The contact has no name of its own (none, or its address), no
\* organisation and no phone.
OnlyAnEmail(c) ==
  /\ c.fn = "" \/ c.fn \in EmailLikeNames
  /\ c.org = ""
  /\ c.tels = <<>>

\* C22: a contact with no real name, no organisation and no phone never
\* receives a kind and never gains a category, whatever classify_entities and
\* auto_tag_categories calls are made with whatever rule set.
C22_EmailOnlyUntouched ==
  \A i \in 1..Len(cards) :
    OnlyAnEmail(cards0[i]) =>
      /\ cards[i].kind = cards0[i].kind
      /\ Range(cards[i].categories) \subseteq Range(cards0[i].categories)

\* Both functions have run on an email-only contact without kind whose name
\* and title occur in the patterns of a rule set.
C22_Witness ==
  /\ pc = "classified and tagged"
  /\ \E i \in 1..Len(cards) :
       /\ OnlyAnEmail(cards0[i])
       /\ cards0[i].fn = "a@x.com" /\ cards0[i].title = "CEO"
       /\ cards0[i].kind = "" /\ cards0[i].categories = <<>>
       /\ cards[i] = cards0[i]

C24_BareNameIsIndividual ==
  \A i \in 1..Len(cards) :
    /\ pc \in {"classified", "classified and tagged"}
    /\ cards0[i] = Card("", "Jane Doe", <<>>, <<>>, "", "", <<>>, "icloud")
    => cards[i].kind = "individual"

----------------------------------------------------------------------------
(* Properties of the field stripper (checked under SpecStrip).             *)

\* Names of a known vendor pattern: Apple X-AB*, X-ADDRESSBOOKSERVER*,
\* itemN.* and X-GOOGLE*, in any letter case.
VendorNames == {N_XABUID, N_xablabel, N_XADDR, N_item1, N_ITEM12, N_XGOOGLE}

\* Other names with the extension prefix X-.
OtherExtensionNames == {N_XCUSTOM, N_xcustom}

\* The names of raw0 that are expected to stay, in their order.
ExpectedKept(raw0, keep) ==
  SelectSeq(raw0, LAMBDA name :
    \/ name \in WHITELIST
    \/ /\ name \notin VendorNames
       /\ name \in OtherExtensionNames => keep)

\* C25: the stripper removes a property of a vendor pattern whatever the
\* keep-unknown flag is, removes any other X- property exactly when the flag
\* is false, and keeps allow-listed properties and properties without an
\* extension prefix.
C25_StripperRules ==
  pc = "stripped" =>
    \A i \in 1..Len(cards) :
      /\ cards[i].raw = ExpectedKept(cards0[i].raw, keep_unknown)
      /\ [cards[i] EXCEPT !.raw = <<>>] = [cards0[i] EXCEPT !.raw = <<>>]

\* With keep-unknown set, a vendor property went and another X- property and
\* a standard property stayed.
C25_Witness ==
  /\ pc = "stripped" /\ keep_unknown
  /\ \E i \in 1..Len(cards) :
       /\ Range(cards0[i].raw) \cap VendorNames # {}
       /\ Range(cards[i].raw) \cap OtherExtensionNames # {}
       /\ Len(cards[i].raw) < Len(cards0[i].raw)

\* C26: whenever the stripper removes a proprietary property from a contact,
\* the contact's audit log gains an entry recording the removal.
C26_StripIsLogged ==
  pc = "stripped" =>
    \A i \in 1..Len(cards) :
      Len(cards[i].raw) < Len(cards0[i].raw)
      => Len(cards[i].changes) > Len(cards0[i].changes)

----------------------------------------------------------------------------
(* Properties of the pre-parse sanitisation (checked under SpecSanitise).  *)

\* Lines with an item-group prefix or a bare leading dot followed by X-.
VendorOnGroup == {L_item_x, L_ITEM_x, L_dot_x, L_item_dd_x}

\* What a line is expected to leave in the output.
ExpectedLine(line) ==
  IF line \in VendorOnGroup THEN <<>>
  ELSE IF line \in {L_item_dd, L_item_std, L_dot_std} THEN <<L_std>>
  ELSE IF line = L_item_xml THEN <<L_xml>>
  ELSE <<line>>

RECURSIVE ExpectedText(_)
ExpectedText(lines) ==
  IF lines = <<>> THEN <<>> ELSE ExpectedLine(Head(lines)) \o ExpectedText(Tail(lines))

\* C27: sanitisation handles each line on its own and keeps the order: a
\* line with an item-group prefix or a bare leading dot followed by an X-
\* property is dropped, one followed by a standard property loses only the
\* prefix, and every other line passes through unchanged.
C27_SanitiseLines == pc = "sanitised" => text = ExpectedText(disk.input)

----------------------------------------------------------------------------
(* Properties of clustering the same list twice.                           *)

----------------------------------------------------------------------------
(* Properties of the checkpoint round trip.                                *)

SameContact(loaded, saved) ==
  /\ loaded.fn = saved.fn
  /\ loaded.emails = saved.emails
  /\ loaded.tels = saved.tels
  /\ loaded.categories = saved.categories

\* C29: loading a saved checkpoint returns one contact per saved contact,
\* with the same display name, email addresses, phone numbers and categories,
\* together with the saved progress index, input count and source file list;
\* once the checkpoint is cleared (or was never saved) loading returns None.
C29_CheckpointRoundTrip ==
  pc = "loaded" =>
    IF disk.checkpoint.exists
      THEN /\ outcome.kind = "checkpoint"
           /\ Len(outcome.cards) = Len(cards)
           /\ \E f \in [1..Len(cards) -> 1..Len(cards)] :
                /\ \A i, j \in 1..Len(cards) : f[i] = f[j] => i = j
                /\ \A i \in 1..Len(cards) : SameContact(outcome.cards[f[i]], cards[i])
           /\ outcome.meta.review_index = disk.checkpoint.meta.review_index
           /\ outcome.meta.input_count = Len(cards)
           /\ outcome.meta.source_files = <<"icloud", "proton">>
      ELSE outcome = NoOutcome

----------------------------------------------------------------------------
(* Properties of the web UI's checkpoint.                                  *)

\* C30: once a web-UI operation (single-field edit, full edit, add, delete
\* by either endpoint, link, unlink, merge) has acted, the checkpoint on disk
\* holds exactly the contacts in memory: as many as _state["cards"], and one
\* with the same name, emails, phones and categories for each of them.
C30_CheckpointHoldsMemory ==
  (mode = "web" /\ pc = "done" /\ edits > 0) =>
    /\ disk.checkpoint.exists
    /\ disk.checkpoint.meta.total_cards = Len(outcome.cards)
    /\ LET loaded == load_checkpoint(disk.checkpoint).cards
           n == Len(outcome.cards)
       IN /\ Len(loaded) = n
          /\ \E f \in [1..n -> 1..n] :
               /\ \A i, j \in 1..n : f[i] = f[j] => i = j
               /\ \A i \in 1..n : SameContact(loaded[f[i]], cards[outcome.cards[i]])

----------------------------------------------------------------------------
(* Properties of the web export.                                           *)

----------------------------------------------------------------------------
(* Properties of web requests served while a run is in flight.             *)

Stores(t) ==
  /\ t \in 1..Len(srv.runs)
  /\ Run(t).pc = "store"
  /\ srv'.runs[t].pc = "ended"
  /\ srv'.status = "loaded"

Reflected(did, list) ==
  IF did.op = "delete"
    THEN \A q \in 1..Len(list) : list[q].fn # did.card.fn
    ELSE \E q \in 1..Len(list) : list[q] = did.card

\* C32: an edit or a deletion made through the web UI while a background run
\* is in flight is still reflected in the in-memory contact set once that
\* run has stored its result.
C32_EditsSurviveRun ==
  [][\A t \in 1..MaxRuns : \A k \in 1..Len(decisions) :
       (Stores(t) /\ t \in decisions[k].during) => Reflected(decisions[k], srv'.cards)]_vars

----------------------------------------------------------------------------
(* Properties of the end of a run (checked under SpecServerFair).          *)

Ends(t) ==
  /\ t \in 1..Len(srv.runs)
  /\ Run(t).pc # "ended"
  /\ srv'.runs[t].pc = "ended"

----------------------------------------------------------------------------
(* Properties of the relations between contacts (checked under SpecLinks). *)

\* The relation r points at contact c: by uid when it has one, else by name.
PointsAt(r, c) == IF r.uid # "" THEN r.uid = c.uid ELSE r.text = Or(c.fn, c.org)

RelationsTo(a, b) == SelectSeq(a.related, LAMBDA r : PointsAt(r, b))

\* C34: after any sequence of link and unlink requests the relations stay
\* mirrored: A holds a relation to B exactly when B holds the reciprocal
\* relation to A, with at most one relation per direction, also for
\* contacts without uid.
C34_RelationsMirrored ==
  mode = "web_links" =>
    \A x, y \in Range(outcome.cards) :
      x # y =>
        /\ Len(RelationsTo(cards[x], cards[y])) <= 1
        /\ \A k \in 1..Len(RelationsTo(cards[x], cards[y])) :
             \E r \in Range(RelationsTo(cards[y], cards[x])) :
               r.rel_type = Reciprocal(RelationsTo(cards[x], cards[y])[k].rel_type)

----------------------------------------------------------------------------
(* Properties of the manual merge (checked under SpecWebMerge).            *)

Without(list, members) == SelectSeq(list, LAMBDA m : m \notin members)

\* C35: a merge request with k >= 2 distinct valid indices shrinks the list
\* by exactly k - 1, puts the merged contact at the lowest of the given
\* positions and keeps every other contact, unchanged, in its original
\* relative order; a request with fewer than 2 indices, an out-of-range
\* index or a repeated index leaves the list and every contact unchanged.
C35_ManualMergeFrame ==
  (mode = "web_merge" /\ edits = 0) =>
    \A indices \in AnyIndices(outcome.cards) :
      LET list == outcome.cards
          r == api_merge_cards(cards, list, indices)
          k == Len(indices)
          lowest == CHOOSE x \in Range(indices) : \A y \in Range(indices) : x <= y
          members == {list[indices[x]] : x \in 1..k}
      IN IF k >= 2 /\ Range(indices) \subseteq 1..Len(list)
            /\ Cardinality(Range(indices)) = k
           THEN /\ Len(r.list) = Len(list) - (k - 1)
                /\ r.list[lowest] \in members
                /\ \E e \in Range(r.cards[r.list[lowest]].changes) :
                     e.tag = "Manually merged"
                /\ Without(r.list, members) = Without(list, members)
                /\ \A m \in Range(Without(list, members)) : r.cards[m] = cards[m]
           ELSE r.list = list /\ r.cards = cards

\* A merge of positions 2 and 3 of a three-contact list has been made: two
\* contacts remain and the merged one is second.
C35_Witness ==
  /\ mode = "web_merge" /\ edits = 1
  /\ Len(cards) = 3 /\ Len(outcome.cards) = 2
  /\ outcome.cards[1] = 1
  /\ \E e \in Range(cards[outcome.cards[2]].changes) : e.tag = "Manually merged"

\* C36: the fields waived on a contact survive a checkpoint round trip:
\* every contact that load_checkpoint returns has the waived set of the
\* saved contact it stands for.
C36_WaivedSurvives ==
  (pc = "loaded" /\ disk.checkpoint.exists) =>
    \A k \in 1..Len(outcome.cards) :
      \E i \in 1..Len(cards) :
        /\ SameContact(outcome.cards[k], cards[i])
        /\ outcome.cards[k].waived = cards[i].waived

\* The clusters that hold contact i, as pairs <<cluster, position>>.
PlacesOf(i) ==
  {p \in (1..Len(clusters)) \X (1..(MaxCards + 1)) :
     p[2] <= Len(clusters[p[1]]) /\ clusters[p[1]][p[2]] = i}

\* C37: the clusters of find_duplicate_clusters partition the input list:
\* every contact sits in exactly one cluster exactly once, no cluster is
\* empty, seeds and members are in input order; the merge loop appends one
\* survivor per cluster, a member of that cluster, so that it ends with as
\* many contacts as clusters.
C37_ClustersPartition ==
  pc # "start" =>
    /\ \A i \in 1..Len(cards0) : Cardinality(PlacesOf(i)) = 1
    /\ \A k \in 1..Len(clusters) :
         /\ clusters[k] # <<>>
         /\ Range(clusters[k]) \subseteq 1..Len(cards0)
         /\ Increasing(clusters[k])
    /\ Increasing([k \in 1..Len(clusters) |-> clusters[k][1]])
    /\ pc = "merge" =>
         /\ Len(merged) = idx - 1
         /\ \A k \in 1..Len(merged) : merged[k] \in Range(clusters[k])
         /\ idx > Len(clusters) => Len(merged) = Len(clusters)

\* C37 witness: the merge loop is over for a list of three contacts that
\* fell into two clusters, one of them with two members.
C37_Witness ==
  /\ pc = "merge" /\ idx > Len(clusters)
  /\ Len(cards0) = 3 /\ Len(clusters) = 2 /\ Len(merged) = 2
  /\ \E k \in 1..2 : Len(clusters[k]) = 2

\* C38: two contacts gain the 40 of the phone match only when they hold
\* phone numbers that share a non-empty digit suffix: whenever the score
\* differs from the score of the same pair with the first contact's phones
\* taken away, two of their phones have the same non-empty key.
C38_PhoneScoreNeedsDigits ==
  (pc = "scored" /\ ~SameUid(cards[1], cards[2])
     /\ score # similarity([cards[1] EXCEPT !.tels = <<>>], cards[2])) =>
    \E ta \in Range(cards[1].tels), tb \in Range(cards[2].tels) :
      tel_key(ta) = tel_key(tb) /\ tel_key(ta) # <<>>

\* The positions of the review list that carry no flag.
Unflagged == (1..Len(queue)) \ flagged_delete

\* The k-th unflagged position.
UnflaggedAt(k) ==
  CHOOSE p \in Unflagged : Cardinality({q \in Unflagged : q <= p}) = k

ReviewRank(i) == Rank(review_key(cards0[i]), ReviewKeyOrder)

\* C39: review_cards returns exactly the contacts whose position carries no
\* flag when the loop ends, in the order of the sort by lower-cased name or
\* organisation (ties in input order); quitting keeps every unflagged
\* contact, those not yet reviewed included; 'd' on a flagged contact takes
\* its flag away; an unknown command moves neither the position nor a flag.
C39_ReviewReturnsUnflagged ==
  /\ [](pc \in {"review_loop", "reviewed"} =>
          /\ Len(queue) = Len(cards0)
          /\ Range(queue) = 1..Len(cards0)
          /\ \A x, y \in 1..Len(queue) :
               x < y => \/ ReviewRank(queue[x]) < ReviewRank(queue[y])
                        \/ /\ ReviewRank(queue[x]) = ReviewRank(queue[y])
                           /\ queue[x] < queue[y])
  /\ [](pc = "reviewed" =>
          /\ Len(outcome.cards) = Cardinality(Unflagged)
          /\ \A k \in 1..Len(outcome.cards) : outcome.cards[k] = queue[UnflaggedAt(k)])
  /\ [][ReviewQuit =>
          /\ flagged_delete' = flagged_delete
          /\ \A p \in 1..Len(queue) :
               p \notin flagged_delete => queue[p] \in Range(outcome'.cards)]_vars
  /\ [][(ReviewFlag /\ idx \in flagged_delete) =>
          flagged_delete' = flagged_delete \ {idx}]_vars
  /\ [][ReviewUnknown => (idx' = idx /\ flagged_delete' = flagged_delete)]_vars

\* C39 witness: the review was left with 'q' on the second of two contacts,
\* which the sort had put in the other order; the first one is flagged and
\* the second, never answered for, is what is returned.
C39_Witness ==
  /\ pc = "reviewed"
  /\ queue = <<2, 1>> /\ idx = 2
  /\ flagged_delete = {1}
  /\ outcome.cards = <<1>>

====
